---------------------------- MODULE Spec2Model ----------------------------
(***************************************************************************)
(* A model of vue-i18n-audit: the section splitter (parser.ts), the key    *)
(* extractor (extractor.ts), the catalog loader (locales.ts), the          *)
(* validator and the audit orchestrator (validator.ts) and the hardcoded   *)
(* text detector (hardcoded.ts).                                           *)
(*                                                                         *)
(* Text is modelled as TLA+ strings, a document as the sequence of its     *)
(* physical lines.  The regular expressions of the source are modelled by  *)
(* matchers that walk a line character by character.                       *)
(***************************************************************************)
EXTENDS Integers, Sequences, FiniteSets, TLC

(***************************************************************************)
(* Characters and strings                                                  *)
(***************************************************************************)
Lowers == "abcdefghijklmnopqrstuvwxyz"
Uppers == "ABCDEFGHIJKLMNOPQRSTUVWXYZ"
Digits == "0123456789"

CharsOf(s) == {SubSeq(s, i, i) : i \in 1..Len(s)}

LowerSet == CharsOf(Lowers)
UpperSet == CharsOf(Uppers)
DigitSet == CharsOf(Digits)
LetterSet == LowerSet \cup UpperSet
AlnumSet == LetterSet \cup DigitSet
\* The class \w.
WordSet == AlnumSet \cup {"_"}
\* The class \s: the blanks inside a line and the line break.
SpaceSet == {" ", "\t", "\n"}
\* The grave accent (U+0060, the delimiter of a template literal).  The
\* lexer of TLA+ admits no grave accent inside a string literal, so the text
\* of the model writes it as a tilde, which occurs nowhere else in the text.
Backtick == "~"
\* The class of the three quote characters: single, double, grave.
QuoteSet == {"'", "\"", Backtick}

\* The character of s at 1-based position i; "" outside the string.
Ch(s, i) == IF 1 <= i /\ i <= Len(s) THEN SubSeq(s, i, i) ELSE ""

\* The first position >= i whose character is not in S (a greedy S*).
RECURSIVE SkipIn(_, _, _)
SkipIn(s, i, S) == IF Ch(s, i) \in S THEN SkipIn(s, i + 1, S) ELSE i

\* The first position >= i whose character is in S, or Len(s)+1 (a greedy [^S]*).
RECURSIVE SkipNotIn(_, _, _)
SkipNotIn(s, i, S) ==
  IF i <= Len(s) /\ Ch(s, i) \notin S THEN SkipNotIn(s, i + 1, S) ELSE i

\* Whether the literal lit occurs in s at position i.
LitAt(s, i, lit) ==
  /\ i >= 1
  /\ i + Len(lit) - 1 <= Len(s)
  /\ SubSeq(s, i, i + Len(lit) - 1) = lit

\* String.prototype.startsWith / includes
StartsWith(s, lit) == LitAt(s, 1, lit)
EndsWith(s, lit) == LitAt(s, Len(s) - Len(lit) + 1, lit)
Includes(s, lit) == \E i \in 1..(Len(s) + 1) : LitAt(s, i, lit)

\* Whether every character of s from position i on is in S.
AllIn(s, i, S) == SkipIn(s, i, S) > Len(s)

\* String.prototype.trim
RECURSIVE TrimEnd(_)
TrimEnd(s) ==
  IF Len(s) > 0 /\ Ch(s, Len(s)) \in SpaceSet
  THEN TrimEnd(SubSeq(s, 1, Len(s) - 1))
  ELSE s
Trim(s) ==
  LET a == SkipIn(s, 1, SpaceSet)
  IN IF a > Len(s) THEN "" ELSE TrimEnd(SubSeq(s, a, Len(s)))

\* String.prototype.toUpperCase
UpperOf(c) ==
  IF c \in LowerSet
  THEN LET i == CHOOSE j \in 1..Len(Lowers) : SubSeq(Lowers, j, j) = c
       IN SubSeq(Uppers, i, i)
  ELSE c
RECURSIVE toUpperCase(_)
toUpperCase(s) ==
  IF Len(s) = 0 THEN ""
  ELSE UpperOf(Ch(s, 1)) \o toUpperCase(SubSeq(s, 2, Len(s)))

RECURSIVE Concat(_)
Concat(ss) == IF ss = <<>> THEN <<>> ELSE Head(ss) \o Concat(Tail(ss))

\* The number of elements of a sequence of booleans that are TRUE.
CountTrue(flags) == Cardinality({i \in DOMAIN flags : flags[i]})

(***************************************************************************)
(* parser.ts: the section splitter                                         *)
(*                                                                         *)
(* A document is the sequence of its physical lines.  The library call     *)
(* vueParse yields, for each block, the text between the end of its        *)
(* opening tag and the start of its closing tag; split at line breaks that *)
(* text is the rest of the opening tag's line, the lines in between, and   *)
(* the part of the closing tag's line before the tag.  The model covers    *)
(* documents whose opening and closing tags stand on lines of their own.   *)
(***************************************************************************)
\* A section that is not present (descriptor.x?.content || null).
Null == <<>>

\* The least index of a sequence of booleans that is TRUE, 0 when there is
\* none; the same from an index on; and the greatest.
FirstTrueFrom(flags, from) ==
  IF \E i \in from..Len(flags) : flags[i]
  THEN CHOOSE i \in from..Len(flags) :
         flags[i] /\ \A j \in from..(i - 1) : ~flags[j]
  ELSE 0
FirstTrue(flags) == FirstTrueFrom(flags, 1)
LastTrue(flags) ==
  IF \E i \in DOMAIN flags : flags[i]
  THEN CHOOSE i \in DOMAIN flags :
         flags[i] /\ \A j \in (i + 1)..Len(flags) : ~flags[j]
  ELSE 0

\* An opening script tag at position p of a line, and whether the text
\* between the tag name and the closing > holds the word setup.
ScriptTagAt(line, p) ==
  /\ LitAt(line, p, "<script")
  /\ SkipNotIn(line, p + 7, {">"}) <= Len(line)
ScriptTagHasSetup(line, p) ==
  Includes(SubSeq(line, p + 7, SkipNotIn(line, p + 7, {">"}) - 1), "setup")
\* /<script(?![^>]*setup)[^>]*>/ and /<script[^>]*setup[^>]*>/ on one line
MatchesScriptTag(line) ==
  \E p \in 1..Len(line) : ScriptTagAt(line, p) /\ ~ScriptTagHasSetup(line, p)
MatchesScriptSetupTag(line) ==
  \E p \in 1..Len(line) : ScriptTagAt(line, p) /\ ScriptTagHasSetup(line, p)
IncludesTemplateTag(line) == Includes(line, "<template")

IsTemplateOpen(line) == Trim(line) = "<template>"
IsTemplateClose(line) == Trim(line) = "</template>"
IsScriptClose(line) == Trim(line) = "</script>"

\* The text of a block split at its line breaks: open and close are the
\* lines of the opening and of the closing tag.
BlockContent(raw, open, close) ==
  IF open = 0 \/ close = 0 \/ close <= open
  THEN Null
  ELSE <<"">> \o SubSeq(raw, open + 1, close - 1) \o <<"">>

\* vueParse: the descriptor of a document.  The template block ends at the
\* last closing template tag (template tags nest); a script block ends at
\* the first closing script tag after its opening tag.
vueParse(raw) ==
  LET scriptClose == [i \in DOMAIN raw |-> IsScriptClose(raw[i])]
      tOpen == FirstTrue([i \in DOMAIN raw |-> IsTemplateOpen(raw[i])])
      tClose == LastTrue([i \in DOMAIN raw |-> IsTemplateClose(raw[i])])
      sOpen == FirstTrue([i \in DOMAIN raw |-> MatchesScriptTag(raw[i])])
      sClose == IF sOpen = 0 THEN 0 ELSE FirstTrueFrom(scriptClose, sOpen + 1)
      ssOpen == FirstTrue([i \in DOMAIN raw |-> MatchesScriptSetupTag(raw[i])])
      ssClose == IF ssOpen = 0 THEN 0 ELSE FirstTrueFrom(scriptClose, ssOpen + 1)
  IN [template |-> BlockContent(raw, tOpen, tClose),
      script |-> BlockContent(raw, sOpen, sClose),
      scriptSetup |-> BlockContent(raw, ssOpen, ssClose)]

\* content.substring(0, index).split('\n').length for the first match of a
\* pattern that matches inside one line, given for each line whether the
\* pattern matches in it: the 1-based number of the line, 0 for no match.
LineOfFirstMatch(matches) == FirstTrue(matches)

\* parseVueSFC, for a file that could be read.
parseVueSFC(filePath, raw) ==
  LET descriptor == vueParse(raw)
      templateMatch ==
        LineOfFirstMatch([i \in DOMAIN raw |-> IncludesTemplateTag(raw[i])])
      scriptMatch ==
        LineOfFirstMatch([i \in DOMAIN raw |-> MatchesScriptTag(raw[i])])
      scriptSetupMatch ==
        LineOfFirstMatch([i \in DOMAIN raw |-> MatchesScriptSetupTag(raw[i])])
  IN [filePath |-> filePath,
      template |-> descriptor.template,
      templateStartLine |->
        IF descriptor.template # Null /\ templateMatch # 0
        THEN templateMatch ELSE 1,
      script |-> descriptor.script,
      scriptStartLine |->
        IF descriptor.script # Null /\ scriptMatch # 0
        THEN scriptMatch ELSE 1,
      scriptSetup |-> descriptor.scriptSetup,
      scriptSetupStartLine |->
        IF descriptor.scriptSetup # Null /\ scriptSetupMatch # 0
        THEN scriptSetupMatch ELSE 1]

\* calculateSourceLine
calculateSourceLine(sectionLine, sectionStartLine) ==
  sectionStartLine + sectionLine

(***************************************************************************)
(* extractor.ts: the key extractor                                         *)
(***************************************************************************)
NoMatch == [ok |-> FALSE, key |-> "", end |-> 0]

\* The common tail of the call patterns, t\s*\(\s*(Q)([^S]+)\1 with the t at
\* position p: Q is the class of the opening quote, S the class the key
\* stops at.  The greedy key runs to the first character of S, which must be
\* the opening quote again.  end is the position after the match.
CallTail(s, p, Q, S) ==
  LET a == SkipIn(s, p + 1, SpaceSet)
      b == SkipIn(s, a + 1, SpaceSet)
      e == SkipNotIn(s, b + 1, S)
  IN IF /\ Ch(s, p) = "t"
        /\ Ch(s, a) = "("
        /\ Ch(s, b) \in Q
        /\ e > b + 1
        /\ Ch(s, e) = Ch(s, b)
     THEN [ok |-> TRUE, key |-> SubSeq(s, b + 1, e - 1), end |-> e + 1]
     ELSE NoMatch

\* An optional $ at position p: the position of the t that must follow.
AfterDollar(s, p) == IF Ch(s, p) = "$" THEN p + 1 ELSE p

\* interpolationPattern at position p: \{\{\s*\$?t\s*\(\s*(['"`])([^'"`]+)\1
InterpolationAt(s, p) ==
  IF Ch(s, p) = "{" /\ Ch(s, p + 1) = "{"
  THEN CallTail(s, AfterDollar(s, SkipIn(s, p + 2, SpaceSet)), QuoteSet, QuoteSet)
  ELSE NoMatch

\* The greedy (?:-\w+)* from position i.
RECURSIVE SkipDashWords(_, _)
SkipDashWords(s, i) ==
  IF Ch(s, i) = "-" /\ Ch(s, i + 1) \in WordSet
  THEN SkipDashWords(s, SkipIn(s, i + 1, WordSet))
  ELSE i

\* boundAttrPattern at position p:
\* :\w+(?:-\w+)*=["']\s*\$?t\s*\(\s*(['"`])([^'"`]+)\1
BoundAttrAt(s, p) ==
  LET w == SkipIn(s, p + 1, WordSet)
      d == SkipDashWords(s, w)
  IN IF /\ Ch(s, p) = ":"
        /\ w > p + 1
        /\ Ch(s, d) = "="
        /\ Ch(s, d + 1) \in {"\"", "'"}
     THEN CallTail(s, AfterDollar(s, SkipIn(s, d + 2, SpaceSet)), QuoteSet, QuoteSet)
     ELSE NoMatch

\* templateLiteralPattern of the template at position p: \$?t\s*\(\s*`([^`]+)`
TemplateLiteralAt(s, p) == CallTail(s, AfterDollar(s, p), {Backtick}, {Backtick})

\* simplePattern of the script at position p: \bt\s*\(\s*(['"`])([^'"`]+)\1
SimpleAt(s, p) ==
  IF Ch(s, p - 1) \notin WordSet
  THEN CallTail(s, p, QuoteSet, QuoteSet)
  ELSE NoMatch

\* templateLiteralPattern of the script at position p: \bt\s*\(\s*`([^`]+)`
ScriptLiteralAt(s, p) ==
  IF Ch(s, p - 1) \notin WordSet
  THEN CallTail(s, p, {Backtick}, {Backtick})
  ELSE NoMatch

MatchAt(pattern, s, p) ==
  CASE pattern = "interpolation" -> InterpolationAt(s, p)
    [] pattern = "boundAttr" -> BoundAttrAt(s, p)
    [] pattern = "templateLiteral" -> TemplateLiteralAt(s, p)
    [] pattern = "simple" -> SimpleAt(s, p)
    [] pattern = "scriptLiteral" -> ScriptLiteralAt(s, p)

\* A variant of the loop over the matches that stops after the first match.
RECURSIVE ExecAll_FirstOnly(_, _, _)
ExecAll_FirstOnly(pattern, s, p) ==
  IF p > Len(s) THEN <<>>
  ELSE LET m == MatchAt(pattern, s, p)
       IN IF m.ok THEN <<m.key>>
          ELSE ExecAll_FirstOnly(pattern, s, p + 1)

\* while ((match = regex.exec(line)) !== null): the captured keys of the
\* successive leftmost matches of a global pattern, searching from position p.
RECURSIVE ExecAll(_, _, _)
ExecAll(pattern, s, p) ==
  IF p > Len(s) THEN <<>>
  ELSE LET m == MatchAt(pattern, s, p)
       IN IF m.ok THEN <<m.key>> \o ExecAll(pattern, s, m.end)
          ELSE ExecAll(pattern, s, p + 1)

StaticKey(key, filePath, lineNumber, context) ==
  [key |-> key, file |-> filePath, line |-> lineNumber,
   context |-> context, isDynamic |-> FALSE]
DynamicKey(rawPattern, filePath, lineNumber, context) ==
  [key |-> "", file |-> filePath, line |-> lineNumber,
   context |-> context, isDynamic |-> TRUE,
   rawPattern |-> Backtick \o rawPattern \o Backtick]

StaticKeys(matches, filePath, lineNumber, context) ==
  [i \in DOMAIN matches |-> StaticKey(matches[i], filePath, lineNumber, context)]
\* A template literal: dynamic when it includes a placeholder, else a key.
LiteralKeys(matches, filePath, lineNumber, context) ==
  [i \in DOMAIN matches |->
     IF Includes(matches[i], "${")
     THEN DynamicKey(matches[i], filePath, lineNumber, context)
     ELSE StaticKey(matches[i], filePath, lineNumber, context)]

\* The body of the loop of extractFromTemplate for line i (counted from 0).
TemplateLineKeys(line, i, filePath, startLine) ==
  LET lineNumber == calculateSourceLine(i + 1, startLine)
  IN StaticKeys(ExecAll("interpolation", line, 1), filePath, lineNumber, "template")
     \o StaticKeys(ExecAll("boundAttr", line, 1), filePath, lineNumber, "template")
     \o LiteralKeys(ExecAll("templateLiteral", line, 1), filePath, lineNumber, "template")

extractFromTemplate(template, filePath, startLine) ==
  Concat([n \in DOMAIN template |->
            TemplateLineKeys(template[n], n - 1, filePath, startLine)])

\* The text of a section: its lines joined by line breaks.
RECURSIVE JoinLines(_)
JoinLines(lines) ==
  IF lines = <<>> THEN ""
  ELSE IF Len(lines) = 1 THEN lines[1]
  ELSE lines[1] \o "\n" \o JoinLines(Tail(lines))

\* /useI18n\s*\(/ and /const\s*\{\s*t\s*[,}]/ at position p of the text
UsesI18nAt(s, p) ==
  \/ LitAt(s, p, "useI18n") /\ Ch(s, SkipIn(s, p + 7, SpaceSet)) = "("
  \/ /\ LitAt(s, p, "const")
     /\ LET a == SkipIn(s, p + 5, SpaceSet)
            b == SkipIn(s, a + 1, SpaceSet)
            c == SkipIn(s, b + 1, SpaceSet)
        IN Ch(s, a) = "{" /\ Ch(s, b) = "t" /\ Ch(s, c) \in {",", "}"}
usesI18n(script) ==
  LET text == JoinLines(script)
  IN \E p \in 1..Len(text) : UsesI18nAt(text, p)

\* The body of the loop of extractFromScript for line i (counted from 0).
\* A variant of the loop body that scans import and type lines too.
ScriptLineKeys_KeepsImports(line, i, filePath, startLine) ==
  LET lineNumber == calculateSourceLine(i + 1, startLine)
  IN StaticKeys(ExecAll("simple", line, 1), filePath, lineNumber, "script")
     \o LiteralKeys(ExecAll("scriptLiteral", line, 1), filePath, lineNumber, "script")

ScriptLineKeys(line, i, filePath, startLine) ==
  LET lineNumber == calculateSourceLine(i + 1, startLine)
  IN IF StartsWith(Trim(line), "import ") \/ StartsWith(Trim(line), "type ")
     THEN <<>>
     ELSE StaticKeys(ExecAll("simple", line, 1), filePath, lineNumber, "script")
          \o LiteralKeys(ExecAll("scriptLiteral", line, 1), filePath, lineNumber, "script")

\* A variant of extractFromScript that scans every section.
extractFromScript_Ungated(script, filePath, startLine) ==
  Concat([n \in DOMAIN script |->
            ScriptLineKeys(script[n], n - 1, filePath, startLine)])

extractFromScript(script, filePath, startLine) ==
  IF ~usesI18n(script) THEN <<>>
  ELSE Concat([n \in DOMAIN script |->
                 ScriptLineKeys(script[n], n - 1, filePath, startLine)])

extractTranslationKeys(parsed) ==
  (IF parsed.template # Null
   THEN extractFromTemplate(parsed.template, parsed.filePath, parsed.templateStartLine)
   ELSE <<>>)
  \o (IF parsed.scriptSetup # Null
      THEN extractFromScript(parsed.scriptSetup, parsed.filePath, parsed.scriptSetupStartLine)
      ELSE <<>>)
  \o (IF parsed.script # Null
      THEN extractFromScript(parsed.script, parsed.filePath, parsed.scriptStartLine)
      ELSE <<>>)

\* getUniqueKeys: the set of the non-empty keys of the static call sites
\* (the source returns it as a sorted array; only its size is used).
getUniqueKeys(keys) ==
  {keys[i].key : i \in {j \in DOMAIN keys : ~keys[j].isDynamic /\ keys[j].key # ""}}

(***************************************************************************)
(* scanner.ts (in extractor.ts): file discovery                            *)
(***************************************************************************)
projectRoot == "/proj"

\* path.relative(projectRoot, filePath) for a path below the project root.
getRelativePath(filePath) ==
  IF StartsWith(filePath, projectRoot \o "/")
  THEN SubSeq(filePath, Len(projectRoot) + 2, Len(filePath))
  ELSE filePath

\* The order of the UTF-16 code units of the characters of a path, which
\* Array.prototype.sort compares.
CodeOrder == "./0123456789ABCDEFGHIJKLMNOPQRSTUVWXYZ_abcdefghijklmnopqrstuvwxyz"
CodeOf(c) == CHOOSE i \in 1..Len(CodeOrder) : SubSeq(CodeOrder, i, i) = c
RECURSIVE StrLess(_, _)
StrLess(a, b) ==
  IF Len(b) = 0 THEN FALSE
  ELSE IF Len(a) = 0 THEN TRUE
  ELSE IF Ch(a, 1) # Ch(b, 1) THEN CodeOf(Ch(a, 1)) < CodeOf(Ch(b, 1))
  ELSE StrLess(SubSeq(a, 2, Len(a)), SubSeq(b, 2, Len(b)))

\* files.sort() of a set of distinct paths
RECURSIVE SortPaths(_)
SortPaths(S) ==
  IF S = {} THEN <<>>
  ELSE LET least == CHOOSE x \in S : \A y \in S \ {x} : StrLess(x, y)
       IN <<least>> \o SortPaths(S \ {least})

\* Whether a path matches an ignore pattern of the shape **/name/** or
\* **/*suffix.
GlobIgnores(f, pattern) ==
  IF StartsWith(pattern, "**/*") THEN EndsWith(f, SubSeq(pattern, 5, Len(pattern)))
  ELSE IF StartsWith(pattern, "**/") /\ EndsWith(pattern, "/**")
  THEN Includes(f, SubSeq(pattern, 3, Len(pattern) - 2))
  ELSE FALSE

\* globSync(join(pagesDir, '**/*.vue'), {ignore}) over the files on disk
globSync(pagesDir, ignore, disk) ==
  {f \in disk : /\ StartsWith(f, pagesDir \o "/")
                 /\ EndsWith(f, ".vue")
                 /\ \A n \in DOMAIN ignore : ~GlobIgnores(f, ignore[n])}

\* scanVueFiles: found is what globSync returns for the pages directory.
scanVueFiles(cfg, found) ==
  SortPaths(IF ~cfg.includePartials
            THEN {f \in found : ~Includes(f, "/Partials/")}
            ELSE found)

(***************************************************************************)
(* locales.ts: the catalog loader                                          *)
(*                                                                         *)
(* A parsed locale object is the sequence of its [key, value] pairs in     *)
(* the order of Object.entries; a value is a string leaf, a nested object  *)
(* or a leaf of another type.  A value is a record of its type t, its text *)
(* v when it is a string, and its Object.entries when it is an object.     *)
(***************************************************************************)
Str(v) == [t |-> "string", v |-> v, entries |-> <<>>]
Obj(pairs) == [t |-> "object", v |-> "", entries |-> pairs]
Other(t) == [t |-> t, v |-> "", entries |-> <<>>]
\* null, and an array, whose Object.entries are its indices and its items
JsNull == [t |-> "null", v |-> "", entries |-> <<>>]
Arr(items) ==
  [t |-> "array", v |-> "",
   entries |-> [i \in DOMAIN items |-> <<SubSeq(Digits, i, i), items[i]>>]]
\* typeof value
TypeOf(value) ==
  IF value.t \in {"object", "null", "array"} THEN "object" ELSE value.t

\* A variant of flattenObject without the Array.isArray test.
RECURSIVE flattenObject_ArraysAsObjects(_, _, _)
flattenObject_ArraysAsObjects(obj, prefix, file) ==
  Concat([n \in DOMAIN obj |->
            LET key == obj[n][1]
                value == obj[n][2]
                fullKey == IF prefix # "" THEN prefix \o "." \o key ELSE key
            IN IF value.t # "null" /\ TypeOf(value) = "object"
               THEN flattenObject_ArraysAsObjects(value.entries, fullKey, file)
               ELSE IF TypeOf(value) = "string"
               THEN <<[key |-> fullKey, value |-> value.v, file |-> file,
                       isEmpty |-> (Trim(value.v) = "")]>>
               ELSE <<>>])

RECURSIVE flattenObject(_, _, _)
flattenObject(obj, prefix, file) ==
  Concat([n \in DOMAIN obj |->
            LET key == obj[n][1]
                value == obj[n][2]
                fullKey == IF prefix # "" THEN prefix \o "." \o key ELSE key
            IN IF value.t # "null" /\ TypeOf(value) = "object" /\ value.t # "array"
               THEN flattenObject(value.entries, fullKey, file)
               ELSE IF TypeOf(value) = "string"
               THEN <<[key |-> fullKey, value |-> value.v, file |-> file,
                       isEmpty |-> (Trim(value.v) = "")]>>
               ELSE <<>>])

\* path.basename(file, ext)
basename(file, ext) ==
  IF EndsWith(file, ext) /\ Len(file) > Len(ext)
  THEN SubSeq(file, 1, Len(file) - Len(ext))
  ELSE file

\* A locale file on disk is a record of its name, whether readFileSync can
\* read it, whether its text has an export default object that the match of
\* parseLocaleFile finds, and the object that text parses to.
\* parseLocaleFile throws when the file cannot be read, and returns the empty
\* object when it finds no default export.
parseLocaleFileThrows(f) == ~f.readable
parseLocaleFile(f) == IF ~f.exported THEN <<>> ELSE f.obj

\* A variant of the loop body that takes the entries of a file although
\* reading it failed.
LocaleFileEntries_IgnoresError(localesDir, f) ==
  IF ~EndsWith(f.name, ".ts") THEN <<>>
  ELSE IF basename(f.name, ".ts") = "index" THEN <<>>
  ELSE flattenObject(f.obj, basename(f.name, ".ts"), localesDir \o "/" \o f.name)

\* The body of the loop of loadLocaleEntries for one directory entry: the
\* entries it adds.  An error of parseLocaleFile is caught inside the loop.
LocaleFileEntries(localesDir, f) ==
  IF ~EndsWith(f.name, ".ts") THEN <<>>
  ELSE IF basename(f.name, ".ts") = "index" THEN <<>>
  ELSE IF parseLocaleFileThrows(f) THEN <<>>
  ELSE flattenObject(parseLocaleFile(f), basename(f.name, ".ts"),
                     localesDir \o "/" \o f.name)

\* loadLocaleEntries: a directory that cannot be read yields no entry.
loadLocaleEntries(localesDir, dir) ==
  IF ~dir.readable THEN <<>>
  ELSE Concat([n \in DOMAIN dir.files |-> LocaleFileEntries(localesDir, dir.files[n])])

\* Map.prototype.set
MapSet(m, k, v) == [x \in (DOMAIN m) \cup {k} |-> IF x = k THEN v ELSE m[x]]
EmptyMap == [x \in {} |-> x]

\* createLocaleLookup: the fold of lookup.set(entry.key, entry) over the
\* entries, from the first to the last.
RECURSIVE LookupFold(_, _)
LookupFold(lookup, entries) ==
  IF entries = <<>> THEN lookup
  ELSE LookupFold(MapSet(lookup, Head(entries).key, Head(entries)), Tail(entries))

\* A variant of createLocaleLookup that keeps the first entry of a key.
RECURSIVE LookupFoldFirst(_, _)
LookupFoldFirst(lookup, entries) ==
  IF entries = <<>> THEN lookup
  ELSE LookupFoldFirst(IF Head(entries).key \in DOMAIN lookup THEN lookup
                       ELSE MapSet(lookup, Head(entries).key, Head(entries)),
                       Tail(entries))
createLocaleLookup_FirstWins(entries) == LookupFoldFirst(EmptyMap, entries)

createLocaleLookup(entries) == LookupFold(EmptyMap, entries)

(***************************************************************************)
(* validator.ts: the validator                                             *)
(***************************************************************************)
DynamicKeyIssue(key) ==
  [type |-> "dynamic_key", severity |-> "info",
   file |-> getRelativePath(key.file), line |-> key.line,
   key |-> key.rawPattern,
   message |-> "Dynamic translation key detected: " \o key.rawPattern
               \o ". Manual review required."]
MissingTranslationIssue(key) ==
  [type |-> "missing_translation", severity |-> "error",
   file |-> getRelativePath(key.file), line |-> key.line,
   key |-> key.key,
   message |-> "Translation key '" \o key.key \o "' not found in English locale"]
EmptyValueIssue(key) ==
  [type |-> "empty_value", severity |-> "warning",
   file |-> getRelativePath(key.file), line |-> key.line,
   key |-> key.key,
   message |-> "Translation key '" \o key.key \o "' has an empty value"]

\* A variant of StaticKeyIssues that reports every key that has an entry.
StaticKeyIssues_FlagsPresent(key, localeLookup) ==
  IF key.key \notin DOMAIN localeLookup
  THEN <<MissingTranslationIssue(key)>>
  ELSE <<EmptyValueIssue(key)>>

\* A variant of StaticKeyIssues that never looks at isEmpty.
StaticKeyIssues_IgnoresEmpty(key, localeLookup) ==
  IF key.key \notin DOMAIN localeLookup
  THEN <<MissingTranslationIssue(key)>>
  ELSE <<>>

\* The body of the loop of validateKeys for a static call site: the lookup
\* of its key and the issues it adds.
StaticKeyIssues(key, localeLookup) ==
  IF key.key \notin DOMAIN localeLookup
  THEN <<MissingTranslationIssue(key)>>
  ELSE IF localeLookup[key.key].isEmpty
  THEN <<EmptyValueIssue(key)>>
  ELSE <<>>

\* A variant of validateKey that looks a dynamic call site's raw pattern up
\* and stays silent when the catalog has it.
validateKey_LooksUpDynamic(key, localeLookup) ==
  IF key.isDynamic
  THEN IF key.rawPattern \in DOMAIN localeLookup
       THEN <<>>
       ELSE <<DynamicKeyIssue(key)>>
  ELSE StaticKeyIssues(key, localeLookup)

\* The body of the loop of validateKeys for one call site: the issues it adds.
validateKey(key, localeLookup) ==
  IF key.isDynamic
  THEN <<DynamicKeyIssue(key)>>
  ELSE StaticKeyIssues(key, localeLookup)

\* A variant of validateKeys that reports a key once, at its first call site.
validateKeys_Deduplicated(keys, localeLookup) ==
  Concat([n \in DOMAIN keys |->
            IF \E m \in 1..(n - 1) :
                 ~keys[m].isDynamic /\ ~keys[n].isDynamic /\ keys[m].key = keys[n].key
            THEN <<>>
            ELSE validateKey(keys[n], localeLookup)])

validateKeys(keys, localeLookup) ==
  Concat([n \in DOMAIN keys |-> validateKey(keys[n], localeLookup)])

\* findEmptyLocaleValues
findEmptyLocaleValues(entries) ==
  Concat([n \in DOMAIN entries |->
            IF entries[n].isEmpty
            THEN <<[type |-> "empty_value", severity |-> "warning",
                    file |-> getRelativePath(entries[n].file), line |-> 0,
                    key |-> entries[n].key,
                    message |-> "Translation key '" \o entries[n].key
                                \o "' has an empty value in locale file"]>>
            ELSE <<>>])

\* countIssuesByType
IsMissing(issue) == issue.type = "missing_translation"
IsEmptyValue(issue) == issue.type = "empty_value"
IsDynamicKey(issue) == issue.type = "dynamic_key"
IsHardcoded(issue) == issue.type = "hardcoded_text"
\* A variant of the switch whose empty_value case falls through to the
\* dynamic_key case.
countIssuesByType_FallsThrough(issues) ==
  [missingTranslations |-> CountTrue([n \in DOMAIN issues |-> IsMissing(issues[n])]),
   emptyValues |-> CountTrue([n \in DOMAIN issues |-> IsEmptyValue(issues[n])]),
   dynamicKeys |-> CountTrue([n \in DOMAIN issues |->
                                IsEmptyValue(issues[n]) \/ IsDynamicKey(issues[n])])]

countIssuesByType(issues) ==
  [missingTranslations |-> CountTrue([n \in DOMAIN issues |-> IsMissing(issues[n])]),
   emptyValues |-> CountTrue([n \in DOMAIN issues |-> IsEmptyValue(issues[n])]),
   dynamicKeys |-> CountTrue([n \in DOMAIN issues |-> IsDynamicKey(issues[n])])]

(***************************************************************************)
(* hardcoded.ts: the hardcoded text detector                               *)
(***************************************************************************)
HexSet == DigitSet \cup CharsOf("abcdefABCDEF")

\* The greedy (-[a-z]+)+$ from position i.
RECURSIVE KebabRest(_, _)
KebabRest(s, i) ==
  LET l == SkipIn(s, i + 1, LowerSet)
  IN Ch(s, i) = "-" /\ l > i + 1 /\ (l > Len(s) \/ KebabRest(s, l))

\* DEFAULT_EXCLUDE_PATTERNS, in their order
MatchesDefaultExclude(text) ==
  \/ StartsWith(text, "v-")
  \/ StartsWith(text, "@")
  \/ StartsWith(text, ":")
  \/ StartsWith(text, "#")
  \/ StartsWith(text, "route(")
  \/ StartsWith(text, "router.")
  \/ StartsWith(text, "http://") \/ StartsWith(text, "https://")
  \/ StartsWith(text, "mailto:")
  \/ StartsWith(text, "/")
  \/ (SkipIn(text, 1, LowerSet) > 1 /\ KebabRest(text, SkipIn(text, 1, LowerSet)))
  \/ LET a == SkipIn(text, 1, LetterSet)
     IN a > 1 /\ Ch(text, a) = "_" /\ Ch(text, a + 1) \in LetterSet
  \/ (Len(text) > 0 /\ AllIn(text, 1, DigitSet))
  \/ (Ch(text, 1) = "#" /\ Len(text) - 1 \in 3..8 /\ AllIn(text, 2, HexSet))
  \/ StartsWith(text, "${")

\* new RegExp(p).test(text) for a pattern p that is a literal, anchored at the
\* start of the text when it begins with ^.
RegExpTest(p, text) ==
  IF StartsWith(p, "^")
  THEN StartsWith(text, SubSeq(p, 2, Len(p)))
  ELSE Includes(text, p)

\* matchesExclusionPattern over the built-in and the configured patterns
matchesExclusionPattern(text, excludePatterns) ==
  \/ MatchesDefaultExclude(text)
  \/ \E n \in DOMAIN excludePatterns : RegExpTest(excludePatterns[n], text)

\* isComponentName: /^[A-Z][a-zA-Z0-9]*$/
\* A variant of the component name test that asks for a second capital
\* letter.
isComponentName_TwoCapitals(text) ==
  /\ Ch(text, 1) \in UpperSet
  /\ AllIn(text, 2, AlnumSet)
  /\ \E i \in 2..Len(text) : Ch(text, i) \in UpperSet

isComponentName(text) == Ch(text, 1) \in UpperSet /\ AllIn(text, 2, AlnumSet)

\* isTechnicalIdentifier
isTechnicalIdentifier(text) ==
  \/ Ch(text, 1) \in UpperSet /\ AllIn(text, 2, UpperSet \cup DigitSet \cup {"_"})
  \/ Ch(text, 1) \in LowerSet /\ AllIn(text, 2, AlnumSet) /\ Len(text) < 20
  \/ Ch(text, 1) = "." /\ Len(text) > 1 /\ AllIn(text, 2, WordSet)

\* A variant of calculateConfidence whose punctuation rule takes a text of
\* five characters.
calculateConfidence_PunctuationFromFive(text) ==
  LET trimmed == Trim(text)
  IN IF /\ Ch(trimmed, 1) \in UpperSet
        /\ Ch(trimmed, 2) \in LowerSet
        /\ Includes(trimmed, " ")
     THEN "high"
     ELSE IF Ch(trimmed, Len(trimmed)) \in {".", "!", "?", ":", ","} /\ Len(trimmed) >= 5
     THEN "high"
     ELSE IF /\ Ch(trimmed, 1) \in UpperSet
             /\ Len(trimmed) > 1
             /\ AllIn(trimmed, 2, LowerSet)
     THEN "medium"
     ELSE IF Includes(trimmed, " ") /\ Len(trimmed) > 10
     THEN "medium"
     ELSE "low"

\* calculateConfidence
calculateConfidence(text) ==
  LET trimmed == Trim(text)
  IN IF /\ Ch(trimmed, 1) \in UpperSet
        /\ Ch(trimmed, 2) \in LowerSet
        /\ Includes(trimmed, " ")
     THEN "high"
     ELSE IF Ch(trimmed, Len(trimmed)) \in {".", "!", "?", ":", ","} /\ Len(trimmed) > 5
     THEN "high"
     ELSE IF /\ Ch(trimmed, 1) \in UpperSet
             /\ Len(trimmed) > 1
             /\ AllIn(trimmed, 2, LowerSet)
     THEN "medium"
     ELSE IF Includes(trimmed, " ") /\ Len(trimmed) > 10
     THEN "medium"
     ELSE "low"

Max(a, b) == IF a > b THEN a ELSE b
Min(a, b) == IF a < b THEN a ELSE b

\* textPattern at position p: >([^<{]+)<, the greedy run must end at a <.
\* index is the 0-based index of the match, len the length of match[0].
TextAt(s, p) ==
  LET e == SkipNotIn(s, p + 1, {"<", "{"})
  IN IF Ch(s, p) = ">" /\ e > p + 1 /\ Ch(s, e) = "<"
     THEN [ok |-> TRUE, raw |-> SubSeq(s, p + 1, e - 1), index |-> p - 1,
           len |-> e - p + 1, end |-> e + 1]
     ELSE [ok |-> FALSE, raw |-> "", index |-> 0, len |-> 0, end |-> 0]

\* The loop over the matches of textPattern in line i (counted from 0) of
\* extractTextNodes, searching from position p.
RECURSIVE LineTextNodes(_, _, _)
LineTextNodes(line, i, p) ==
  IF p > Len(line) THEN <<>>
  ELSE LET m == TextAt(line, p)
           text == Trim(m.raw)
           contextStart == Max(0, m.index - 20)
           contextEnd == Min(Len(line), m.index + m.len + 20)
       IN IF ~m.ok THEN LineTextNodes(line, i, p + 1)
          ELSE IF text = "" \/ Includes(text, "{{") \/ Includes(text, "}}")
          THEN LineTextNodes(line, i, m.end)
          ELSE <<[text |-> text, line |-> i + 1,
                  context |-> SubSeq(line, contextStart + 1, contextEnd)]>>
               \o LineTextNodes(line, i, m.end)

extractTextNodes(template) ==
  Concat([n \in DOMAIN template |-> LineTextNodes(template[n], n - 1, 1)])

\* A variant of the loop body that keeps the texts shorter than minLength
\* and drops the others.
NodeCandidates_KeepsShort(node, parsed, rules) ==
  LET text == node.text
  IN IF Len(text) >= rules.minLength THEN <<>>
     ELSE IF matchesExclusionPattern(text, rules.excludePatterns) THEN <<>>
     ELSE <<[text |-> text,
             file |-> getRelativePath(parsed.filePath),
             line |-> calculateSourceLine(node.line, parsed.templateStartLine),
             confidence |-> calculateConfidence(text),
             context |-> node.context]>>

\* The body of the loop of detectHardcodedStrings for one text node: the
\* candidates it adds.
NodeCandidates(node, parsed, rules) ==
  LET text == node.text
  IN IF Len(text) < rules.minLength THEN <<>>
     ELSE IF rules.excludeAllCaps /\ text = toUpperCase(text) /\ Len(text) > 2 THEN <<>>
     ELSE IF matchesExclusionPattern(text, rules.excludePatterns) THEN <<>>
     ELSE IF isComponentName(text) THEN <<>>
     ELSE IF isTechnicalIdentifier(text) THEN <<>>
     ELSE <<[text |-> text,
             file |-> getRelativePath(parsed.filePath),
             line |-> calculateSourceLine(node.line, parsed.templateStartLine),
             confidence |-> calculateConfidence(text),
             context |-> node.context]>>

detectHardcodedStrings(parsed, rules) ==
  IF parsed.template = Null THEN <<>>
  ELSE LET textNodes == extractTextNodes(parsed.template)
       IN Concat([n \in DOMAIN textNodes |-> NodeCandidates(textNodes[n], parsed, rules)])

(***************************************************************************)
(* config.ts: the default configuration                                    *)
(***************************************************************************)
DEFAULT_HARDCODED_RULES ==
  [minLength |-> 3, excludeAllCaps |-> TRUE,
   excludePatterns |-> <<"^v-", "^@", "^:", "^#">>]
DEFAULT_CONFIG ==
  [pagesDir |-> "resources/js/Pages",
   localesDir |-> "resources/js/i18n/locales/en",
   includePartials |-> TRUE,
   outputFile |-> "i18n-audit-report.md",
   verbose |-> FALSE,
   excludePatterns |-> <<"**/node_modules/**", "**/*.test.vue">>,
   hardcodedTextRules |-> DEFAULT_HARDCODED_RULES]

\* {...a, ...b}: the fields of a, each overwritten by the field of b of the
\* same name.
Spread(a, b) == [k \in DOMAIN a |-> IF k \in DOMAIN b THEN b[k] ELSE a[k]]

\* loadConfig: file is .i18n-audit.config.json, a record of whether it
\* exists, whether JSON.parse accepts it and the object it parses to.
loadConfig(file) ==
  IF ~file.exists THEN DEFAULT_CONFIG
  ELSE IF ~file.valid THEN DEFAULT_CONFIG
  ELSE [Spread(DEFAULT_CONFIG, file.fileConfig) EXCEPT
          !.hardcodedTextRules =
             Spread(DEFAULT_HARDCODED_RULES,
                    IF "hardcodedTextRules" \in DOMAIN file.fileConfig
                    THEN file.fileConfig.hardcodedTextRules
                    ELSE EmptyMap)]

\* An optional field of the argument of createConfig: <<>> is undefined,
\* <<v>> is the value v.  a || b takes b for undefined and for the empty
\* string, a ?? b for undefined only.
Or(a, b) == IF a = <<>> THEN b ELSE IF a[1] = "" THEN b ELSE a[1]
Coalesce(a, b) == IF a = <<>> THEN b ELSE a[1]

\* createConfig(options) with the configuration file on disk
createConfig(opts, file) ==
  LET baseConfig == loadConfig(file)
  IN [baseConfig EXCEPT
        !.pagesDir = Or(opts.pagesDir, baseConfig.pagesDir),
        !.localesDir = Or(opts.localesDir, baseConfig.localesDir),
        !.outputFile = Or(opts.output, baseConfig.outputFile),
        !.includePartials = Coalesce(opts.includePartials, baseConfig.includePartials),
        !.verbose = Coalesce(opts.verbose, baseConfig.verbose)]

(***************************************************************************)
(* The inputs of a run: the locale directory and the page files on disk    *)
(***************************************************************************)
\* The number of page files on disk is at most MaxFiles.
MaxFiles == 2

\* The paths the glob pattern can find, a page file each.
FilePaths ==
  <<"/proj/resources/js/Pages/Home.vue",
    "/proj/resources/js/Pages/Partials/Menu.vue",
    "/proj/resources/js/Pages/About.vue">>

\* Locale files: the object parseLocaleFile returns for each.
LocaleA ==
  [name |-> "a.ts", readable |-> TRUE, exported |-> TRUE,
   obj |-> <<<<"b", Obj(<<<<"c", Str("Save")>>, <<"n", Other("number")>>>>)>>,
             <<"d", Str(" ")>>>>]
LocaleAB ==
  [name |-> "a.b.ts", readable |-> TRUE, exported |-> TRUE,
   obj |-> <<<<"c", Str("")>>>>]
LocaleIndex ==
  [name |-> "index.ts", readable |-> TRUE, exported |-> TRUE,
   obj |-> <<<<"a", Str("A")>>>>]
\* A file whose only flattened key is the text of a template literal.
LocaleRaw ==
  [name |-> "~s.ts", readable |-> TRUE, exported |-> TRUE,
   obj |-> <<<<"${x}~", Str("X")>>>>]
LocaleNotes ==
  [name |-> "notes.md", readable |-> TRUE, exported |-> FALSE, obj |-> <<>>]
\* A file that cannot be read, and a file whose object is not exported.
LocaleLocked ==
  [name |-> "locked.ts", readable |-> FALSE, exported |-> TRUE,
   obj |-> <<<<"k", Str("K")>>>>]
LocalePlain ==
  [name |-> "plain.ts", readable |-> TRUE, exported |-> FALSE,
   obj |-> <<<<"p", Str("P")>>>>]

LocaleDirs ==
  {[readable |-> FALSE, files |-> <<>>],
   [readable |-> TRUE, files |-> <<>>],
   [readable |-> TRUE, files |-> <<LocaleA>>],
   [readable |-> TRUE, files |-> <<LocaleAB>>],
   [readable |-> TRUE, files |-> <<LocaleA, LocaleAB, LocaleIndex>>],
   [readable |-> TRUE, files |-> <<LocaleAB, LocaleNotes, LocaleA>>],
   [readable |-> TRUE, files |-> <<LocaleIndex, LocaleA, LocaleRaw>>],
   [readable |-> TRUE, files |-> <<LocaleRaw, LocaleAB>>]}

\* Page documents, line by line.
DocMarkup ==
  <<"<template>",
    "  <p>{{ t('a.b.c') }} {{ $t(\"z.q\") }}</p>",
    "  <a :title=\"t('a.d')\">Go home</a>",
    "</template>">>
DocMixed ==
  <<"<!-- page -->",
    "<template>",
    "  <h1>Welcome to Dashboard</h1>",
    "  <b @click=\"t(~s.${x}~)\">{{ t(~a.b.c~) }}</b>",
    "</template>",
    "<script setup>",
    "import { useI18n } from 'vue-i18n'",
    "const { t } = useI18n()",
    "const m = t('z.q') + t('z.q')",
    "</script>">>
DocSetup ==
  <<"<script setup>",
    "const { t } = useI18n()",
    "const s = t(~s.${x}~)",
    "const k = t(~a.d~)",
    "</script>",
    "",
    "<template>",
    "  <p>{{ $t('a.b.c') }}</p>",
    "</template>">>
DocClassic ==
  <<"<template>",
    "  <div class=\"flex-container\">{{ t('z.q') }}</div>",
    "</template>",
    "<script>",
    "export default { x: t('a.b.c') }",
    "</script>">>
DocClean ==
  <<"<template>",
    "",
    "  <span>{{ t('a.b.c') }}</span>",
    "</template>">>

\* What readFileSync finds at a path: a document, or a file it cannot read.
Docs ==
  {[readable |-> TRUE, lines |-> d] :
     d \in {DocMarkup, DocMixed, DocSetup, DocClassic, DocClean}}
  \cup {[readable |-> FALSE, lines |-> <<>>]}

(***************************************************************************)
(* The state of a run of runAudit                                          *)
(***************************************************************************)
VARIABLES
  pc,               \* the step runAudit is at
  config,           \* the configuration of the run
  localeDir,        \* the locale directory on disk
  pages,            \* the page files on disk: path -> document
  localeEntries,    \* runAudit's localeEntries
  localeLookup,     \* runAudit's localeLookup
  vueFiles,         \* runAudit's vueFiles
  fileIndex,        \* the position of the loop over vueFiles
  parsed,           \* the loop's parsed, of the file processed last
  keys,             \* the loop's keys, of the file processed last
  keyIssues,        \* the loop's keyIssues, of the file processed last
  hardcodedStrings, \* the loop's hardcodedStrings, of the file processed last
  allKeys,          \* runAudit's allKeys
  allIssues,        \* runAudit's allIssues
  fileResults,      \* runAudit's fileResults
  report,           \* the report runAudit returns
  call,             \* a call of one function: its name and its arguments
  returned,         \* what that call returned
  argv,             \* the command line of the process
  configFile,       \* .i18n-audit.config.json in the project root
  options,          \* the options the command's action handler receives
  exitCode          \* the exit code of the process, -1 while it runs

VARIABLES
  scanContent,   \* parseLocaleFileRegex: the lines of the text, <<>> before a call
  scanIndex,     \* the position of the line the loop is at, 0 before a call
  result,        \* the tree being built
  currentObj,    \* the object pairs are stored in: its path from the root
  objStack       \* the stack of objects: each its path from the root

callVars == <<call, returned>>
scanVars == <<scanContent, scanIndex, result, currentObj, objStack>>
cliVars == <<argv, configFile, options, exitCode>>
auditVars ==
  <<pc, config, localeDir, pages, localeEntries, localeLookup, vueFiles,
    fileIndex, parsed, keys, keyIssues, hardcodedStrings, allKeys, allIssues,
    fileResults, report>>
vars == <<auditVars, callVars, cliVars, scanVars>>

\* No function was called on its own, and runAudit was not started from the
\* command line.
NoCall == [fn |-> "none"]
NoCommand ==
  /\ argv = <<>>
  /\ configFile = Null
  /\ options = Null
  /\ exitCode = -1

\* No call of parseLocaleFileRegex
NoScan ==
  /\ scanContent = <<>>
  /\ scanIndex = 0
  /\ result = Obj(<<>>)
  /\ currentObj = <<>>
  /\ objStack = <<>>

NoReport == [summary |-> [filesScanned |-> 0], issues |-> <<>>, fileResults |-> <<>>]
NotParsed ==
  [filePath |-> "", template |-> Null, templateStartLine |-> 1, script |-> Null,
   scriptStartLine |-> 1, scriptSetup |-> Null, scriptSetupStartLine |-> 1]

Init ==
  /\ pc = "load"
  /\ config \in {[DEFAULT_CONFIG EXCEPT !.includePartials = b] : b \in BOOLEAN}
  /\ localeDir \in LocaleDirs
  /\ \E n \in 0..MaxFiles : pages \in [{FilePaths[i] : i \in 1..n} -> Docs]
  /\ localeEntries = <<>>
  /\ localeLookup = EmptyMap
  /\ vueFiles = <<>>
  /\ fileIndex = 1
  /\ parsed = NotParsed
  /\ keys = <<>>
  /\ keyIssues = <<>>
  /\ hardcodedStrings = <<>>
  /\ allKeys = <<>>
  /\ allIssues = <<>>
  /\ fileResults = <<>>
  /\ report = NoReport
  /\ call = NoCall
  /\ returned = Null
  /\ NoCommand
  /\ NoScan

(***************************************************************************)
(* validator.ts: runAudit, step by step                                    *)
(***************************************************************************)
\* readdirSync: localeDir is the directory at the default path; the disk
\* holds a second locale directory at app/locales and no other.
readdirSync(path) ==
  IF path = projectRoot \o "/" \o DEFAULT_CONFIG.localesDir THEN localeDir
  ELSE IF path = projectRoot \o "/app/locales"
  THEN [readable |-> TRUE, files |-> <<LocaleAB>>]
  ELSE [readable |-> FALSE, files |-> <<>>]

\* Step 1: load the locale entries and build the lookup table.
LoadLocales ==
  /\ pc = "load"
  /\ LET path == projectRoot \o "/" \o config.localesDir
     IN localeEntries' = loadLocaleEntries(path, readdirSync(path))
  /\ localeLookup' = createLocaleLookup(localeEntries')
  /\ pc' = "scan"
  /\ UNCHANGED <<config, localeDir, pages, vueFiles, fileIndex, parsed, keys,
                 keyIssues, hardcodedStrings, allKeys, allIssues, fileResults,
                 report, callVars, cliVars, scanVars>>

\* Step 2: scan the page files.
ScanFiles ==
  /\ pc = "scan"
  /\ vueFiles' = scanVueFiles(config,
                              globSync(projectRoot \o "/" \o config.pagesDir,
                                       config.excludePatterns, DOMAIN pages))
  /\ pc' = "files"
  /\ UNCHANGED <<config, localeDir, pages, localeEntries, localeLookup,
                 fileIndex, parsed, keys, keyIssues, hardcodedStrings, allKeys,
                 allIssues, fileResults, report, callVars, cliVars, scanVars>>

\* Whether new RegExp(p) throws for one of the configured patterns.
RegExpThrows(excludePatterns) ==
  \E n \in DOMAIN excludePatterns : excludePatterns[n] \in {"(", "[", "*"}

\* A variant of the issue of a candidate whose message leaves the
\* confidence out.
HardcodedIssue_WithoutConfidence(h) ==
  [type |-> "hardcoded_text", severity |-> "warning", file |-> h.file,
   line |-> h.line, text |-> h.text,
   message |-> "Potential hardcoded text: \"" \o h.text \o "\""]

\* hardcodedStrings.map(h => ...) of the loop
HardcodedIssue(h) ==
  [type |-> "hardcoded_text", severity |-> "warning", file |-> h.file,
   line |-> h.line, text |-> h.text,
   message |-> "Potential hardcoded text: \"" \o h.text \o "\" (confidence: "
               \o h.confidence \o ")"]

\* A variant of the file result whose status follows the keys found.
FileResult_StatusByKeys(relPath, keysFound, issueCount) ==
  [file |-> relPath,
   status |-> IF keysFound > 0 THEN "issues_found" ELSE "clean",
   keysFound |-> keysFound,
   issueCount |-> issueCount]

\* fileResults.push({...}) of the loop
FileResult(relPath, keysFound, issueCount) ==
  [file |-> relPath,
   status |-> IF issueCount > 0 THEN "issues_found" ELSE "clean",
   keysFound |-> keysFound,
   issueCount |-> issueCount]

\* A variant of the catch block that records the file as clean.
ErrorFileResult_Clean(relPath) ==
  [file |-> relPath, status |-> "clean", keysFound |-> 0, issueCount |-> 0]

\* The file result the catch block of the loop pushes.
ErrorFileResult(relPath) ==
  [file |-> relPath, status |-> "issues_found", keysFound |-> 0, issueCount |-> 1]

\* Step 3, one turn of the loop: process vueFiles[fileIndex].  A file that
\* cannot be read makes parseVueSFC throw, which the catch turns into a file
\* result.
ProcessFile ==
  /\ pc = "files"
  /\ fileIndex <= Len(vueFiles)
  /\ LET filePath == vueFiles[fileIndex]
         relPath == getRelativePath(filePath)
         doc == pages[filePath]
     IN IF doc.readable
        THEN LET p == parseVueSFC(filePath, doc.lines)
                 ks == extractTranslationKeys(p)
                 kIssues == validateKeys(ks, localeLookup)
                 rules == config.hardcodedTextRules
                 hs == IF RegExpThrows(rules.excludePatterns) THEN <<>>
                       ELSE detectHardcodedStrings(p, rules)
                 hardcodedIssues == [n \in DOMAIN hs |-> HardcodedIssue(hs[n])]
                 fileIssues == kIssues \o hardcodedIssues
             IN /\ parsed' = p
                /\ keys' = ks
                /\ allKeys' = allKeys \o ks
                /\ keyIssues' = kIssues
                /\ hardcodedStrings' = hs
                /\ allIssues' = allIssues \o fileIssues
                /\ fileResults' =
                     Append(fileResults, FileResult(relPath, Len(ks), Len(fileIssues)))
        ELSE /\ fileResults' = Append(fileResults, ErrorFileResult(relPath))
             /\ parsed' = NotParsed
             /\ keys' = <<>>
             /\ keyIssues' = <<>>
             /\ hardcodedStrings' = <<>>
             /\ UNCHANGED <<allKeys, allIssues>>
  /\ fileIndex' = fileIndex + 1
  /\ UNCHANGED <<pc, config, localeDir, pages, localeEntries, localeLookup,
                 vueFiles, report, callVars, cliVars, scanVars>>

\* Math.round(n / d) for d > 0: the nearest integer, a half rounded up.
MathRound(n, d) == (2 * n + d) \div (2 * d)

\* The coverage percentage of step 4, in tenths of a percent (1000 stands
\* for 100): Math.round(((total - missing) / total) * 1000), which the source
\* then divides by 10.
coveragePercentage(totalUniqueKeys, missingKeys) ==
  IF totalUniqueKeys > 0
  THEN MathRound((totalUniqueKeys - missingKeys) * 1000, totalUniqueKeys)
  ELSE 1000

\* Step 4: the summary and the report.
Summarize ==
  /\ pc = "files"
  /\ fileIndex > Len(vueFiles)
  /\ LET uniqueKeys == getUniqueKeys(allKeys)
         issueCounts == countIssuesByType(allIssues)
         hardcodedCount ==
           CountTrue([n \in DOMAIN allIssues |-> IsHardcoded(allIssues[n])])
         totalUniqueKeys == Cardinality(uniqueKeys)
         missingKeys == issueCounts.missingTranslations
     IN report' =
          [summary |->
             [filesScanned |-> Len(vueFiles),
              totalKeysFound |-> Len(allKeys),
              uniqueKeysFound |-> Cardinality(uniqueKeys),
              missingTranslations |-> issueCounts.missingTranslations,
              hardcodedStrings |-> hardcodedCount,
              emptyValues |-> issueCounts.emptyValues,
              dynamicKeys |-> issueCounts.dynamicKeys,
              coveragePercentage |-> coveragePercentage(totalUniqueKeys, missingKeys)],
           issues |-> allIssues,
           fileResults |-> fileResults]
  /\ pc' = "done"
  /\ UNCHANGED <<config, localeDir, pages, localeEntries, localeLookup, vueFiles,
                 fileIndex, parsed, keys, keyIssues, hardcodedStrings, allKeys,
                 allIssues, fileResults, callVars, cliVars, scanVars>>

Next == LoadLocales \/ ScanFiles \/ ProcessFile \/ Summarize

Spec == Init /\ [][Next]_vars

(***************************************************************************)
(* Calls of single functions, on arguments drawn from bounded sets         *)
(***************************************************************************)
\* The sequences without repetition over a set, and the objects whose keys
\* are such a sequence and whose values are drawn from a set.
DistinctSeqs(S) ==
  UNION {{f \in [1..n -> S] : \A i, j \in 1..n : f[i] = f[j] => i = j} :
           n \in 0..Cardinality(S)}
ObjectsOver(keySet, values) ==
  UNION {{[i \in DOMAIN ks |-> <<ks[i], vs[i]>>] : vs \in [DOMAIN ks -> values]} :
           ks \in DistinctSeqs(keySet)}

\* The objects flattenObject is called on: leaves of every type below the
\* root, and trees of depth two and three.
LeafValues ==
  {Str("x"), Str(" "), Str(""), Other("number"), Other("boolean"), JsNull,
   Arr(<<Str("x")>>)}
InnerObjects ==
  ObjectsOver({"b", "c"}, {Str("x"), Str("y"), Other("number")})
NestedObjects ==
  ObjectsOver({"a", "b"},
              {Str("y"), JsNull, Arr(<<Str("x")>>)}
                \cup {Obj(o) : o \in InnerObjects})
LocaleObjects ==
  ObjectsOver({"a", "b"}, LeafValues)
    \cup NestedObjects
    \cup ObjectsOver({"d"}, {Obj(<<<<"a", Obj(o)>>>>) : o \in InnerObjects})
Namespaces == {"ns", "a.b"}

\* No run of runAudit: the state the single calls are made in.
NoAudit ==
  /\ pc = "none"
  /\ config = DEFAULT_CONFIG
  /\ localeDir = [readable |-> FALSE, files |-> <<>>]
  /\ pages = EmptyMap
  /\ localeEntries = <<>>
  /\ localeLookup = EmptyMap
  /\ vueFiles = <<>>
  /\ fileIndex = 1
  /\ parsed = NotParsed
  /\ keys = <<>>
  /\ keyIssues = <<>>
  /\ hardcodedStrings = <<>>
  /\ allKeys = <<>>
  /\ allIssues = <<>>
  /\ fileResults = <<>>
  /\ report = NoReport

CallInit ==
  /\ NoAudit
  /\ NoCommand
  /\ NoScan
  /\ call = NoCall
  /\ returned = Null

\* flattenObject(obj, prefix, file)
CallFlattenObject ==
  /\ call = NoCall
  /\ \E obj \in LocaleObjects, prefix \in Namespaces :
       LET file == "/proj/locales/" \o prefix \o ".ts"
       IN /\ call' = [fn |-> "flattenObject", obj |-> obj, prefix |-> prefix,
                      file |-> file]
          /\ returned' = flattenObject(obj, prefix, file)
  /\ UNCHANGED <<auditVars, cliVars, scanVars>>

\* The directory listings loadLocaleEntries is called on: at most
\* MaxLocaleFiles files, in any order.
MaxLocaleFiles == 3
LocaleFiles ==
  {LocaleA, LocaleAB, LocaleIndex, LocaleNotes, LocaleLocked, LocalePlain}
LocaleListings ==
  {[readable |-> FALSE, files |-> <<>>]}
    \cup {[readable |-> TRUE, files |-> fs] :
            fs \in {l \in DistinctSeqs(LocaleFiles) : Len(l) <= MaxLocaleFiles}}

\* loadLocaleEntries(localesDir)
CallLoadLocaleEntries ==
  /\ call = NoCall
  /\ \E dir \in LocaleListings :
       LET localesDir == projectRoot \o "/" \o DEFAULT_CONFIG.localesDir
       IN /\ call' = [fn |-> "loadLocaleEntries", localesDir |-> localesDir,
                      dir |-> dir]
          /\ returned' = loadLocaleEntries(localesDir, dir)
  /\ UNCHANGED <<auditVars, cliVars, scanVars>>

\* The markup detectHardcodedStrings is called on: at most MaxMarkupLines
\* lines between the template tags, each out of MarkupLines.
MaxMarkupLines == 2
MarkupLines ==
  {"  <h1>Welcome to Dashboard</h1>",
   "  <p>a!</p><b>Go home</b>",
   "  <span>SAVE</span> <i>ok</i>",
   "  <a> Save </a><em>Please wait...</em>",
   "  <td>flex-container</td><td>total: 5 items</td>"}
Markups ==
  UNION {[1..n -> MarkupLines] : n \in 0..MaxMarkupLines}
\* The rule sets: every pattern is one that new RegExp accepts.
RuleSets ==
  {[minLength |-> m, excludeAllCaps |-> c, excludePatterns |-> ps] :
     m \in {0, 3, 8}, c \in BOOLEAN,
     ps \in {<<>>, DEFAULT_HARDCODED_RULES.excludePatterns, <<"^Go", "wait">>}}

\* detectHardcodedStrings(parsed, rules) on the page that holds the markup
CallDetectHardcodedStrings ==
  /\ call = NoCall
  /\ \E markup \in Markups, rules \in RuleSets :
       LET p == parseVueSFC(FilePaths[1], <<"<template>">> \o markup \o <<"</template>">>)
       IN /\ call' = [fn |-> "detectHardcodedStrings", parsed |-> p, rules |-> rules]
          /\ returned' = detectHardcodedStrings(p, rules)
  /\ UNCHANGED <<auditVars, cliVars, scanVars>>

\* The texts calculateConfidence is called on: a beginning, a middle and
\* an end.
ConfidenceTexts ==
  {first \o middle \o last :
     first \in {"W", "We", "WE", "w", "1"},
     middle \in {"", "ord", " to", " to the place", "ORD x"},
     last \in {"", ".", "!", "?", ":", ",", ";", " "}}

\* calculateConfidence(text)
CallCalculateConfidence ==
  /\ call = NoCall
  /\ \E text \in ConfidenceTexts :
       /\ call' = [fn |-> "calculateConfidence", text |-> text]
       /\ returned' = calculateConfidence(text)
  /\ UNCHANGED <<auditVars, cliVars, scanVars>>

\* A page built from its sections: each is absent, or present with the
\* lines between its tags.
Absent == [present |-> FALSE, lines |-> <<>>]
Present(lines) == [present |-> TRUE, lines |-> lines]
SectionLines(open, section, close) ==
  IF section.present THEN <<open>> \o section.lines \o <<close>> ELSE <<>>
PageOf(template, setup, classic) ==
  SectionLines("<template>", template, "</template>")
    \o SectionLines("<script setup>", setup, "</script>")
    \o SectionLines("<script>", classic, "</script>")

\* The code sections extractTranslationKeys is called on: at most
\* MaxScriptLines lines, each out of ScriptLines.
MaxScriptLines == 2
ScriptLines ==
  {"const m = t('z.q')",
   "export default { x: t(\"a.b.c\") }",
   "const { title } = props",
   "function t(k) { return t(~s.${k}~) }",
   "const { t } = useI18n()",
   "const {t, d} = i18n",
   "const {",
   "  t } = ctx; t('a.d')"}
SetupSections ==
  {Absent} \cup {Present(ls) : ls \in UNION {[1..n -> ScriptLines] : n \in 0..MaxScriptLines}}
ClassicSections ==
  {Absent,
   Present(<<"export default { x: t('a.b.c') }">>),
   Present(<<"const i18n = useI18n ()", "const y = i18n.t('z.q')">>)}
TemplateSections == {Absent, Present(<<"  <p>{{ t('a.b.c') }}</p>">>)}

\* extractTranslationKeys(parsed) on the parsed page
CallExtractTranslationKeys ==
  /\ call = NoCall
  /\ \E template \in TemplateSections, setup \in SetupSections,
        classic \in ClassicSections :
       LET p == parseVueSFC(FilePaths[1], PageOf(template, setup, classic))
       IN /\ call' = [fn |-> "extractTranslationKeys", template |-> template,
                      setup |-> setup, classic |-> classic, parsed |-> p]
          /\ returned' = extractTranslationKeys(p)
  /\ UNCHANGED <<auditVars, cliVars, scanVars>>

\* The markup lines extractFromTemplate is called on: at most
\* MaxInterpolations double-brace calls of t or $t, with a single- or a
\* double-quoted dotted key, with or without blanks and a second argument.
MaxInterpolations == 2
Interpolation(open, fn, quote, key, close) ==
  [text |-> open \o fn \o "(" \o quote \o key \o quote \o close, key |-> key]
Interpolations ==
  {Interpolation("{{ ", fn, quote, key, ") }}") :
     fn \in {"t", "$t"}, quote \in {"'", "\""}, key \in {"common.save", "a.b_c-1"}}
    \cup {Interpolation("{{", "t ", "'", "common.save", ", { n: 1 })}}"),
          Interpolation("{{  ", "$t", "\"", "z.q", " , n) }}")}
RECURSIVE JoinTexts(_, _)
JoinTexts(calls, separator) ==
  IF calls = <<>> THEN ""
  ELSE IF Len(calls) = 1 THEN calls[1].text
  ELSE calls[1].text \o separator \o JoinTexts(Tail(calls), separator)

\* extractFromTemplate(template, filePath, startLine) on a template whose
\* second line holds the calls
CallExtractFromTemplate ==
  /\ call = NoCall
  /\ \E n \in 0..MaxInterpolations :
       \E calls \in [1..n -> Interpolations], separator \in {" ", "</b> and <b>"},
          startLine \in {1, 4} :
         LET line == "  <b>" \o JoinTexts(calls, separator) \o "</b>"
         IN /\ call' = [fn |-> "extractFromTemplate", calls |-> calls,
                        line |-> line, startLine |-> startLine]
            /\ returned' = extractFromTemplate(<<"", line, "">>, FilePaths[1], startLine)
  /\ UNCHANGED <<auditVars, cliVars, scanVars>>

\* The lines extractFromScript is called on: an import and a type line
\* with calls of t, the evidence line, and lines with one and two calls
\* that begin like an import or a type line.
MaxSectionLines == 3
SectionLinePool ==
  {"import { t } from 'x'; t('a.b')",
   "  type T = t(~c.${d}~)",
   "const { t } = useI18n()",
   "const a = t('e.f'), b = t(\"g.h\")",
   "typeof t('h.i')",
   "important(t('j.k'))"}

\* extractFromScript(script, filePath, startLine)
CallExtractFromScript ==
  /\ call = NoCall
  /\ \E n \in 1..MaxSectionLines :
       \E script \in [1..n -> SectionLinePool], startLine \in {0, 4} :
         /\ call' = [fn |-> "extractFromScript", script |-> script,
                      filePath |-> FilePaths[1], startLine |-> startLine]
         /\ returned' = extractFromScript(script, FilePaths[1], startLine)
  /\ UNCHANGED <<auditVars, cliVars, scanVars>>

CallNext ==
  \/ CallFlattenObject
  \/ CallLoadLocaleEntries
  \/ CallDetectHardcodedStrings
  \/ CallCalculateConfidence
  \/ CallExtractTranslationKeys
  \/ CallExtractFromTemplate
  \/ CallExtractFromScript

CallSpec == CallInit /\ [][CallNext]_vars

(***************************************************************************)
(* index.ts: the audit and check commands                                  *)
(***************************************************************************)
\* The command a command line names; audit is the default command.
CommandOf(args) ==
  IF args = <<>> THEN "audit"
  ELSE IF Head(args) = "check" THEN "check"
  ELSE "audit"

\* The tokens after the command name
OptionTokens(args) ==
  IF args # <<>> /\ Head(args) \in {"audit", "check"} THEN Tail(args) ELSE args

\* The defaults the .option() declarations of a command give to commander
OptionDefaults(command) ==
  IF command = "check"
  THEN [pagesDir |-> "resources/js/Pages",
        localesDir |-> "resources/js/i18n/locales/en",
        includePartials |-> TRUE,
        verbose |-> FALSE,
        failOnMissing |-> TRUE,
        failOnHardcoded |-> FALSE,
        threshold |-> "0"]
  ELSE [output |-> "i18n-audit-report.md",
        pagesDir |-> "resources/js/Pages",
        localesDir |-> "resources/js/i18n/locales/en",
        includePartials |-> TRUE,
        verbose |-> FALSE,
        json |-> FALSE]

\* The option a flag sets, and whether the flag takes a value
FlagName(flag) ==
  CASE flag \in {"-o", "--output"} -> "output"
    [] flag \in {"-p", "--pages-dir"} -> "pagesDir"
    [] flag \in {"-l", "--locales-dir"} -> "localesDir"
    [] flag \in {"--include-partials", "--no-include-partials"} -> "includePartials"
    [] flag \in {"-v", "--verbose"} -> "verbose"
    [] flag = "--json" -> "json"
    [] flag \in {"--fail-on-missing", "--no-fail-on-missing"} -> "failOnMissing"
    [] flag = "--fail-on-hardcoded" -> "failOnHardcoded"
    [] flag \in {"-t", "--threshold"} -> "threshold"
TakesValue(flag) ==
  flag \in {"-o", "--output", "-p", "--pages-dir", "-l", "--locales-dir",
            "-t", "--threshold"}

\* commander's parse of the option tokens: a flag with a value stores the
\* next token, a --no- flag stores false, any other flag stores true; an
\* option no flag names keeps its default.
RECURSIVE ParseOptions(_, _)
ParseOptions(tokens, opts) ==
  IF tokens = <<>> THEN opts
  ELSE LET flag == Head(tokens)
       IN IF TakesValue(flag)
          THEN ParseOptions(Tail(Tail(tokens)),
                            [opts EXCEPT ![FlagName(flag)] = tokens[2]])
          ELSE ParseOptions(Tail(tokens),
                            [opts EXCEPT ![FlagName(flag)] = ~StartsWith(flag, "--no-")])

\* The object the action handler of a command passes to createConfig
ConfigOptions(command, opts) ==
  [pagesDir |-> <<opts.pagesDir>>,
   localesDir |-> <<opts.localesDir>>,
   output |-> IF command = "audit" THEN <<opts.output>> ELSE <<>>,
   includePartials |-> <<opts.includePartials>>,
   verbose |-> <<opts.verbose>>]

\* parseInt(s, 10): leading white space, an optional sign, then the longest
\* run of digits; NaN when there is no digit.
DigitValue(c) == CHOOSE d \in 0..9 : Ch(Digits, d + 1) = c
RECURSIVE DigitsFrom(_, _, _)
DigitsFrom(s, p, acc) ==
  IF Ch(s, p) \in DigitSet THEN DigitsFrom(s, p + 1, 10 * acc + DigitValue(Ch(s, p)))
  ELSE acc
RECURSIVE SkipSpaces(_, _)
SkipSpaces(s, p) == IF Ch(s, p) \in SpaceSet THEN SkipSpaces(s, p + 1) ELSE p
parseInt(s) ==
  LET p == SkipSpaces(s, 1)
      q == IF Ch(s, p) \in {"+", "-"} THEN p + 1 ELSE p
  IN IF Ch(s, q) \notin DigitSet THEN [isNaN |-> TRUE, n |-> 0]
     ELSE [isNaN |-> FALSE,
           n |-> IF Ch(s, p) = "-" THEN 0 - DigitsFrom(s, q, 0) ELSE DigitsFrom(s, q, 0)]

\* reporter.ts: countActionableIssues
countActionableIssues(r) ==
  Len(SelectSeq(r.issues, LAMBDA i : i.severity # "info"))

\* A variant of the count of the check command that adds the hardcoded
\* strings whatever --fail-on-hardcoded says.
issueCount_HardcodedAlways(opts, summary) ==
  (IF opts.failOnMissing THEN summary.missingTranslations ELSE 0)
  + summary.hardcodedStrings

\* The count the check command compares with the threshold
issueCount(opts, summary) ==
  (IF opts.failOnMissing THEN summary.missingTranslations ELSE 0)
  + (IF opts.failOnHardcoded THEN summary.hardcodedStrings ELSE 0)

\* The exit code of the check command
CheckExitCode(opts, r) ==
  LET threshold == parseInt(opts.threshold)
  IN IF ~threshold.isNaN /\ issueCount(opts, r.summary) > threshold.n THEN 1 ELSE 0

\* The exit code of the audit command
AuditExitCode(r) == IF countActionableIssues(r) > 0 THEN 1 ELSE 0

\* The action handler up to the call of runAudit: commander's options and
\* the configuration createConfig builds from them.
StartCommand ==
  /\ pc = "cli"
  /\ options' = ParseOptions(OptionTokens(argv), OptionDefaults(CommandOf(argv)))
  /\ config' = createConfig(ConfigOptions(CommandOf(argv), options'), configFile)
  /\ pc' = "load"
  /\ UNCHANGED <<localeDir, pages, localeEntries, localeLookup, vueFiles,
                 fileIndex, parsed, keys, keyIssues, hardcodedStrings, allKeys,
                 allIssues, fileResults, report, callVars, argv, configFile,
                 exitCode, scanVars>>

\* The action handler after runAudit returned: process.exit
Exit ==
  /\ pc = "done"
  /\ options # Null
  /\ exitCode' = IF CommandOf(argv) = "check" THEN CheckExitCode(options, report)
                 ELSE AuditExitCode(report)
  /\ pc' = "exit"
  /\ UNCHANGED <<config, localeDir, pages, localeEntries, localeLookup,
                 vueFiles, fileIndex, parsed, keys, keyIssues, hardcodedStrings,
                 allKeys, allIssues, fileResults, report, callVars, argv,
                 configFile, options, scanVars>>

\* Command lines: the flags of each command, given or left out.
Optional(tokens) == {<<>>, tokens}
AuditLines ==
  {head \o p \o l \o i \o v :
     head \in {<<>>, <<"audit">>},
     p \in Optional(<<"--pages-dir", "src/pages">>),
     l \in Optional(<<"-l", "app/locales">>),
     i \in {<<>>, <<"--no-include-partials">>, <<"--include-partials">>},
     v \in Optional(<<"-v">>)}
CheckLines ==
  {<<"check">> \o i \o m \o h \o t :
     i \in Optional(<<"--no-include-partials">>),
     m \in Optional(<<"--no-fail-on-missing">>),
     h \in Optional(<<"--fail-on-hardcoded">>),
     t \in {<<>>, <<"--threshold", "2">>, <<"-t", "10">>}}

\* .i18n-audit.config.json: absent, not JSON, or an object setting some of
\* the fields.
ConfigFileOf(fileConfig) == [exists |-> TRUE, valid |-> TRUE, fileConfig |-> fileConfig]
NoConfigFile == [exists |-> FALSE, valid |-> FALSE, fileConfig |-> EmptyMap]
ConfigFiles ==
  {NoConfigFile,
   [exists |-> TRUE, valid |-> FALSE, fileConfig |-> EmptyMap],
   ConfigFileOf(EmptyMap),
   ConfigFileOf([pagesDir |-> "app/Pages"]),
   ConfigFileOf([localesDir |-> "app/locales", includePartials |-> FALSE,
                 verbose |-> TRUE]),
   ConfigFileOf([hardcodedTextRules |-> [minLength |-> 12]])}

\* The page files of a project with pages in three directories, and of a
\* project with one clean page.
ProjectPages ==
  [f \in {FilePaths[1], FilePaths[2], "/proj/app/Pages/Index.vue",
          "/proj/src/pages/Main.vue"} |->
     [readable |-> TRUE,
      lines |-> IF f = FilePaths[1] THEN DocMarkup
                ELSE IF f = FilePaths[2] THEN DocMixed
                ELSE IF f = "/proj/app/Pages/Index.vue" THEN DocSetup
                ELSE DocClean]]
CleanPages == [f \in {FilePaths[1]} |-> [readable |-> TRUE, lines |-> DocClean]]
ProjectLocaleDirs ==
  {[readable |-> TRUE, files |-> <<LocaleA>>],
   [readable |-> TRUE, files |-> <<LocaleA, LocaleAB, LocaleIndex>>]}

CliInit ==
  /\ pc = "cli"
  /\ \/ /\ argv \in AuditLines
        /\ configFile \in ConfigFiles
        /\ localeDir = [readable |-> TRUE, files |-> <<LocaleA>>]
        /\ pages = ProjectPages
     \/ /\ argv \in CheckLines
        /\ configFile \in {NoConfigFile, ConfigFileOf([pagesDir |-> "app/Pages"])}
        /\ localeDir \in ProjectLocaleDirs
        /\ pages \in {ProjectPages, CleanPages}
  /\ config = DEFAULT_CONFIG
  /\ options = Null
  /\ exitCode = -1
  /\ localeEntries = <<>>
  /\ localeLookup = EmptyMap
  /\ vueFiles = <<>>
  /\ fileIndex = 1
  /\ parsed = NotParsed
  /\ keys = <<>>
  /\ keyIssues = <<>>
  /\ hardcodedStrings = <<>>
  /\ allKeys = <<>>
  /\ allIssues = <<>>
  /\ fileResults = <<>>
  /\ report = NoReport
  /\ call = NoCall
  /\ returned = Null
  /\ NoScan

CliNext ==
  \/ StartCommand
  \/ LoadLocales
  \/ ScanFiles
  \/ ProcessFile
  \/ Summarize
  \/ Exit

CliSpec == CliInit /\ [][CliNext]_vars

(***************************************************************************)
(* locales.ts: parseLocaleFileRegex, line by line                          *)
(*                                                                         *)
(* The objects of the tree are reached by reference in the source; here an *)
(* object is named by its path from the root, the keys on the way to it.   *)
(***************************************************************************)
\* obj[key] and obj[key] = value on the pairs of an object: an assignment
\* to a key the object has replaces its value in place.
HasKey(entries, key) == \E n \in DOMAIN entries : entries[n][1] = key
GetKey(entries, key) ==
  entries[CHOOSE n \in DOMAIN entries : entries[n][1] = key][2]
SetKey(entries, key, value) ==
  IF HasKey(entries, key)
  THEN [n \in DOMAIN entries |->
          IF entries[n][1] = key THEN <<key, value>> ELSE entries[n]]
  ELSE Append(entries, <<key, value>>)

\* The object at a path of the tree, and the tree after obj[key] = value
\* on the object at a path.
RECURSIVE ObjAt(_, _)
ObjAt(tree, path) ==
  IF path = <<>> THEN tree
  ELSE ObjAt(GetKey(tree.entries, Head(path)), Tail(path))
RECURSIVE SetAt(_, _, _, _)
SetAt(tree, path, key, value) ==
  IF path = <<>> THEN Obj(SetKey(tree.entries, key, value))
  ELSE Obj(SetKey(tree.entries, Head(path),
                  SetAt(GetKey(tree.entries, Head(path)), Tail(path), key, value)))

\* trimmed.match(/^(\w+)\s*:\s*\{/): the key, or Null
NestedMatch(trimmed) ==
  LET e == SkipIn(trimmed, 1, WordSet)
      c == SkipIn(trimmed, e, SpaceSet)
      q == SkipIn(trimmed, c + 1, SpaceSet)
  IN IF e > 1 /\ Ch(trimmed, c) = ":" /\ Ch(trimmed, q) = "{"
     THEN <<SubSeq(trimmed, 1, e - 1)>>
     ELSE Null

\* trimmed.match(/^(\w+)\s*:\s*["'`](.*)["'`],?\s*$/): the key and the
\* value, or Null.  The text is trimmed, so after the closing quote
\* comes the end or one comma; the greedy (.*) ends at the last quote.
KvMatch(trimmed) ==
  LET e == SkipIn(trimmed, 1, WordSet)
      c == SkipIn(trimmed, e, SpaceSet)
      q == SkipIn(trimmed, c + 1, SpaceSet)
      n == Len(trimmed)
      z == IF Ch(trimmed, n) \in QuoteSet THEN n
           ELSE IF Ch(trimmed, n) = "," /\ Ch(trimmed, n - 1) \in QuoteSet THEN n - 1
           ELSE 0
  IN IF e > 1 /\ Ch(trimmed, c) = ":" /\ Ch(trimmed, q) \in QuoteSet /\ z > q
     THEN <<SubSeq(trimmed, 1, e - 1), SubSeq(trimmed, q + 1, z - 1)>>
     ELSE Null

\* The lines of the texts the scanner is run on: opens, closes, pairs and
\* a comment.
MaxScanLines == 4
ScanLinePool ==
  {"a: {", "  b : {", "}", "},", "k: \"v\",", "a : 'w'", "// k: {"}
ScanTexts == UNION {[1..n -> ScanLinePool] : n \in 0..MaxScanLines}

\* A variant of the close of an object that pops whatever the stack holds.
CloseObject_PopsRoot(stack, current) ==
  IF Len(stack) > 0
  THEN [currentObj |-> stack[Len(stack)], objStack |-> SubSeq(stack, 1, Len(stack) - 1)]
  ELSE [currentObj |-> current, objStack |-> stack]

\* if (objStack.length > 1) currentObj = objStack.pop()
CloseObject(stack, current) ==
  IF Len(stack) > 1
  THEN [currentObj |-> stack[Len(stack)], objStack |-> SubSeq(stack, 1, Len(stack) - 1)]
  ELSE [currentObj |-> current, objStack |-> stack]

\* The call: the text is split into lines and the stack holds the root.
StartScan ==
  /\ scanIndex = 0
  /\ \E text \in ScanTexts : scanContent' = text
  /\ scanIndex' = 1
  /\ result' = Obj(<<>>)
  /\ currentObj' = <<>>
  /\ objStack' = <<<<>>>>
  /\ UNCHANGED <<auditVars, callVars, cliVars>>

\* One iteration of the loop over the lines
ScanLine ==
  /\ scanIndex >= 1
  /\ scanIndex <= Len(scanContent)
  /\ LET trimmed == Trim(scanContent[scanIndex])
         nestedMatch == NestedMatch(trimmed)
         kvMatch == KvMatch(trimmed)
     IN IF StartsWith(trimmed, "//") \/ StartsWith(trimmed, "/*") \/ trimmed = ""
        THEN UNCHANGED <<result, currentObj, objStack>>
        ELSE IF nestedMatch # Null
        THEN /\ result' = SetAt(result, currentObj, nestedMatch[1], Obj(<<>>))
             /\ objStack' = Append(objStack, currentObj)
             /\ currentObj' = Append(currentObj, nestedMatch[1])
        ELSE IF StartsWith(trimmed, "}")
        THEN LET closed == CloseObject(objStack, currentObj)
             IN /\ currentObj' = closed.currentObj
                /\ objStack' = closed.objStack
                /\ UNCHANGED result
        ELSE IF kvMatch # Null
        THEN /\ result' = SetAt(result, currentObj, kvMatch[1], Str(kvMatch[2]))
             /\ UNCHANGED <<currentObj, objStack>>
        ELSE UNCHANGED <<result, currentObj, objStack>>
  /\ scanIndex' = scanIndex + 1
  /\ UNCHANGED <<scanContent, auditVars, callVars, cliVars>>

ScanInit ==
  /\ NoAudit
  /\ NoCommand
  /\ call = NoCall
  /\ returned = Null
  /\ NoScan

ScanNext ==
  \/ StartScan
  \/ ScanLine

ScanSpec == ScanInit /\ [][ScanNext]_vars

(***************************************************************************)
(* Properties                                                              *)
(*                                                                         *)
(* keys, keyIssues and hardcodedStrings are what the last turn of the loop *)
(* of runAudit extracted from one file and what validateKeys and           *)
(* detectHardcodedStrings returned for it.                                 *)
(***************************************************************************)
\* The number of issues that carry a key and a line.
IssuesAt(issues, key, line) ==
  CountTrue([x \in DOMAIN issues |-> issues[x].key = key /\ issues[x].line = line])
\* The number of dynamic call sites with a raw pattern on a line, and of
\* static call sites with a key on a line.
DynamicSitesAt(ks, rawPattern, line) ==
  CountTrue([x \in DOMAIN ks |->
               ks[x].isDynamic /\ ks[x].rawPattern = rawPattern /\ ks[x].line = line])
StaticSitesAt(ks, key, line) ==
  CountTrue([x \in DOMAIN ks |->
               ~ks[x].isDynamic /\ ks[x].key = key /\ ks[x].line = line])
StaticKeySet(ks) == {ks[n].key : n \in {m \in DOMAIN ks : ~ks[m].isDynamic}}

\* C1: validateKeys gives every dynamic call site exactly one issue, of type
\* dynamic_key and severity info, that carries the call site's raw pattern
\* and line, whatever the catalog holds: the issues that carry a raw pattern
\* and a line are as many as the dynamic call sites with that pattern on that
\* line, all of them are dynamic_key/info, and there is no other dynamic_key
\* issue.
C1_DynamicKeyAlwaysReported ==
  /\ \A n \in DOMAIN keys :
       keys[n].isDynamic =>
         LET k == keys[n]
         IN /\ IssuesAt(keyIssues, k.rawPattern, k.line)
               = DynamicSitesAt(keys, k.rawPattern, k.line)
            /\ \A m \in DOMAIN keyIssues :
                 (keyIssues[m].key = k.rawPattern /\ keyIssues[m].line = k.line)
                 => /\ keyIssues[m].type = "dynamic_key"
                    /\ keyIssues[m].severity = "info"
                    /\ keyIssues[m].file = getRelativePath(k.file)
  /\ CountTrue([x \in DOMAIN keyIssues |-> IsDynamicKey(keyIssues[x])])
     = CountTrue([x \in DOMAIN keys |-> keys[x].isDynamic])

\* C1 witness: a dynamic call site was validated against a catalog that has
\* an entry for its raw pattern, and its issue is in the output.
C1_Witness ==
  \E n \in DOMAIN keys :
    /\ keys[n].isDynamic
    /\ keys[n].rawPattern \in DOMAIN localeLookup
    /\ \E m \in DOMAIN keyIssues :
         keyIssues[m].type = "dynamic_key" /\ keyIssues[m].key = keys[n].rawPattern

\* C2: validateKeys gives every static call site whose key has no entry in
\* the lookup table exactly one issue, of type missing_translation and
\* severity error, with its key and line, and does not deduplicate: the
\* issues with a missing key and a line are as many as the static call sites
\* with that key on that line, and the missing_translation issues are as
\* many as the static call sites with a missing key.
C2_MissingKeyReportedPerCallSite ==
  /\ \A n \in DOMAIN keys :
       (~keys[n].isDynamic /\ keys[n].key \notin DOMAIN localeLookup) =>
         LET k == keys[n]
         IN /\ IssuesAt(keyIssues, k.key, k.line) = StaticSitesAt(keys, k.key, k.line)
            /\ \A m \in DOMAIN keyIssues :
                 (keyIssues[m].key = k.key /\ keyIssues[m].line = k.line)
                 => /\ keyIssues[m].type = "missing_translation"
                    /\ keyIssues[m].severity = "error"
                    /\ keyIssues[m].file = getRelativePath(k.file)
  /\ CountTrue([x \in DOMAIN keyIssues |-> IsMissing(keyIssues[x])])
     = CountTrue([x \in DOMAIN keys |->
                    ~keys[x].isDynamic /\ keys[x].key \notin DOMAIN localeLookup])

\* C2 witness: two call sites of one file use the same missing key and the
\* output has two missing_translation issues for it.
C2_Witness ==
  \E n, m \in DOMAIN keys :
    /\ n < m
    /\ ~keys[n].isDynamic /\ ~keys[m].isDynamic
    /\ keys[n].key = keys[m].key
    /\ keys[n].key \notin DOMAIN localeLookup
    /\ CountTrue([x \in DOMAIN keyIssues |->
                    /\ keyIssues[x].type = "missing_translation"
                    /\ keyIssues[x].key = keys[n].key]) >= 2

\* C3: validateKeys emits no issue for a static call site whose key maps to
\* an entry with a non-empty value, and never more issues than call sites.
C3_PresentKeyNoIssue ==
  /\ \A n \in DOMAIN keys :
       (/\ ~keys[n].isDynamic
        /\ keys[n].key \in DOMAIN localeLookup
        /\ Trim(localeLookup[keys[n].key].value) # "")
       => \A m \in DOMAIN keyIssues : keyIssues[m].key # keys[n].key
  /\ Len(keyIssues) <= Len(keys)

\* C3 witness: a static call site whose key has a non-empty entry was
\* validated together with call sites that did get an issue.
C3_Witness ==
  /\ \E n \in DOMAIN keys :
       /\ ~keys[n].isDynamic
       /\ keys[n].key \in DOMAIN localeLookup
       /\ Trim(localeLookup[keys[n].key].value) # ""
  /\ Len(keyIssues) > 0

\* C4: validateKeys gives every static call site whose key maps to an entry
\* with an empty (trimmed) value exactly one issue, of type empty_value and
\* severity warning, with its key and line, and no missing_translation issue.
C4_EmptyValueReported ==
  \A n \in DOMAIN keys :
    (/\ ~keys[n].isDynamic
     /\ keys[n].key \in DOMAIN localeLookup
     /\ localeLookup[keys[n].key].isEmpty) =>
      LET k == keys[n]
      IN /\ IssuesAt(keyIssues, k.key, k.line) = StaticSitesAt(keys, k.key, k.line)
         /\ \A m \in DOMAIN keyIssues :
              (keyIssues[m].key = k.key)
              => /\ keyIssues[m].type = "empty_value"
                 /\ keyIssues[m].severity = "warning"
                 /\ keyIssues[m].file = getRelativePath(k.file)

\* C4 witness: a static call site whose entry holds only white space was
\* validated and has its empty_value issue.
C4_Witness ==
  \E n \in DOMAIN keys :
    /\ ~keys[n].isDynamic
    /\ keys[n].key \in DOMAIN localeLookup
    /\ localeLookup[keys[n].key].value = " "
    /\ localeLookup[keys[n].key].isEmpty
    /\ \E m \in DOMAIN keyIssues :
         keyIssues[m].type = "empty_value" /\ keyIssues[m].key = keys[n].key

\* C5: a call whose argument is a template literal with a placeholder yields
\* only a dynamic call site: no static call site has a key that includes a
\* placeholder, and validation reports no missing_translation for such a key.
C5_PlaceholderLiteralOnlyDynamic ==
  /\ \A n \in DOMAIN keys : ~keys[n].isDynamic => ~Includes(keys[n].key, "${")
  /\ \A m \in DOMAIN keyIssues :
       keyIssues[m].type = "missing_translation" => ~Includes(keyIssues[m].key, "${")

\* The line with the grave accents of its template literals written as single
\* quotes; a line that holds a placeholder is left as it is.
RECURSIVE ReplaceChar(_, _, _)
ReplaceChar(s, from, to) ==
  IF Len(s) = 0 THEN ""
  ELSE (IF Ch(s, 1) = from THEN to ELSE Ch(s, 1))
       \o ReplaceChar(SubSeq(s, 2, Len(s)), from, to)
Requoted(line) ==
  IF Includes(line, "${") THEN line ELSE ReplaceChar(line, Backtick, "'")

\* C6: a call whose argument is a template literal without a placeholder is
\* extracted exactly as the same call with a quoted string: the call sites of
\* a file are those of the file with such literals written in single quotes.
C6_PlainLiteralSameAsQuoted ==
  parsed.filePath # "" =>
    LET raw == pages[parsed.filePath].lines
    IN keys = extractTranslationKeys(
                parseVueSFC(parsed.filePath, [n \in DOMAIN raw |-> Requoted(raw[n])]))

\* The text a call site was matched for.
MatchedText(k) == IF k.isDynamic THEN k.rawPattern ELSE k.key

\* C7: the line reported for a call site and for a hardcoded text candidate
\* is the 1-based number, in the document, of the physical line that holds
\* the matched text.
C7_ReportedLineIsDocumentLine ==
  parsed.filePath # "" =>
    LET raw == pages[parsed.filePath].lines
    IN /\ \A n \in DOMAIN keys :
            /\ keys[n].line \in DOMAIN raw
            /\ Includes(raw[keys[n].line], MatchedText(keys[n]))
       /\ \A n \in DOMAIN hardcodedStrings :
            /\ hardcodedStrings[n].line \in DOMAIN raw
            /\ Includes(raw[hardcodedStrings[n].line], hardcodedStrings[n].text)

\* C8: the coverage percentage of the report is round(((U - M) / U) * 1000) / 10
\* for U unique static keys of which M have no catalog entry, and 100 when U
\* is 0 (the model holds the percentage in tenths).
C8_CoverageOfUniqueKeys ==
  pc = "done" =>
    LET U == StaticKeySet(allKeys)
        M == {k \in U : k \notin DOMAIN localeLookup}
    IN report.summary.coveragePercentage =
         IF Cardinality(U) = 0 THEN 1000
         ELSE MathRound((Cardinality(U) - Cardinality(M)) * 1000, Cardinality(U))

\* C9: the report of a run holds, for every catalog entry with an empty
\* value, an empty_value warning with line 0 and the entry's key, used or
\* not, and summary.emptyValues counts them.
C9_EmptyCatalogEntriesReported ==
  pc = "done" =>
    /\ \A n \in DOMAIN localeEntries :
         localeEntries[n].isEmpty =>
           \E m \in DOMAIN report.issues :
             /\ report.issues[m].type = "empty_value"
             /\ report.issues[m].severity = "warning"
             /\ report.issues[m].line = 0
             /\ report.issues[m].key = localeEntries[n].key
    /\ report.summary.emptyValues >= Len(findEmptyLocaleValues(localeEntries))

\* The entry of a key that comes last in a list of entries.
LastEntryOf(entries, k) ==
  entries[CHOOSE i \in DOMAIN entries :
            /\ entries[i].key = k
            /\ \A j \in (i + 1)..Len(entries) : entries[j].key # k]

\* C10: createLocaleLookup is right-biased: the table holds one entry per
\* distinct key of the list, the last one with that key, and validation of a
\* static call site uses that entry: it reports empty_value exactly when the
\* last entry of the key is empty.
C10_LookupRightBiased ==
  /\ pc # "load" =>
       DOMAIN localeLookup = {localeEntries[i].key : i \in DOMAIN localeEntries}
  /\ \A k \in DOMAIN localeLookup : localeLookup[k] = LastEntryOf(localeEntries, k)
  /\ \A n \in DOMAIN keys :
       (~keys[n].isDynamic
        /\ \E i \in DOMAIN localeEntries : localeEntries[i].key = keys[n].key)
       => ((\E m \in DOMAIN keyIssues :
              /\ keyIssues[m].type = "empty_value"
              /\ keyIssues[m].key = keys[n].key
              /\ keyIssues[m].line = keys[n].line)
           <=> LastEntryOf(localeEntries, keys[n].key).isEmpty)

\* C10 witness: two files, read one after the other, gave the same key with
\* different values, and a call site with that key was validated.
C10_Witness ==
  /\ \E i, j \in DOMAIN localeEntries :
       /\ i < j
       /\ localeEntries[i].key = localeEntries[j].key
       /\ localeEntries[i].file # localeEntries[j].file
       /\ localeEntries[i].isEmpty # localeEntries[j].isEmpty
       /\ localeLookup[localeEntries[i].key] = localeEntries[j]
       /\ \E n \in DOMAIN keys : ~keys[n].isDynamic /\ keys[n].key = localeEntries[i].key


(***************************************************************************)
(* Properties of the catalog loader                                        *)
(***************************************************************************)
\* The string leaves of a tree, each with the path of keys that leads to it.
RECURSIVE StringLeaves(_)
StringLeaves(obj) ==
  UNION {LET key == obj[n][1]
             value == obj[n][2]
         IN IF value.t = "object"
            THEN {<<<<key>> \o l[1], l[2]>> : l \in StringLeaves(value.entries)}
            ELSE IF value.t = "string" THEN {<<<<key>>, value.v>>}
            ELSE {} : n \in DOMAIN obj}

\* The parts of a path joined by dots.
RECURSIVE JoinDot(_)
JoinDot(path) ==
  IF Len(path) = 1 THEN path[1] ELSE path[1] \o "." \o JoinDot(Tail(path))

\* The same tree with its sibling keys in every other iteration order, at
\* every level.
RECURSIVE Reorderings(_)
Reorderings(obj) ==
  LET ValueOrders(value) ==
        IF value.t = "object" THEN {Obj(o) : o \in Reorderings(value.entries)}
        ELSE {value}
      AllValues == UNION {ValueOrders(obj[n][2]) : n \in DOMAIN obj}
  IN UNION {{[i \in DOMAIN obj |-> <<obj[p[i]][1], vs[i]>>] :
               vs \in {w \in [DOMAIN obj -> AllValues] :
                         \A i \in DOMAIN obj : w[i] \in ValueOrders(obj[p[i]][2])}} :
            p \in {q \in [DOMAIN obj -> DOMAIN obj] :
                     \A i, j \in DOMAIN obj : q[i] = q[j] => i = j}}

KeyValuePairs(entries) ==
  {<<entries[n].key, entries[n].value>> : n \in DOMAIN entries}

\* C11: flattenObject under a namespace emits exactly one entry per string
\* leaf of the tree and nothing else: as many entries as string leaves, each
\* with the namespace and the path to the leaf joined by dots as its key, the
\* leaf as its value, the given file, and isEmpty exactly when the trimmed
\* value is empty; and the set of (key, value) pairs is the same for every
\* iteration order of the sibling keys.
C11_FlattenObjectOneEntryPerStringLeaf ==
  call.fn = "flattenObject" =>
    LET leaves == StringLeaves(call.obj)
    IN /\ Len(returned) = Cardinality(leaves)
       /\ {returned[n] : n \in DOMAIN returned}
            = {[key |-> JoinDot(<<call.prefix>> \o l[1]), value |-> l[2],
                file |-> call.file, isEmpty |-> (Trim(l[2]) = "")] : l \in leaves}
       /\ \A o \in Reorderings(call.obj) :
            KeyValuePairs(flattenObject(o, call.prefix, call.file))
              = KeyValuePairs(returned)

\* C11 witness: {a: {b: 'x', c: 'y'}, b: ['x']} was flattened under ns into
\* ns.a.b = 'x' and ns.a.c = 'y'; the array was dropped.
C11_Witness ==
  /\ call.fn = "flattenObject"
  /\ call.prefix = "ns"
  /\ call.obj = <<<<"a", Obj(<<<<"b", Str("x")>>, <<"c", Str("y")>>>>)>>,
                  <<"b", Arr(<<Str("x")>>)>>>>
  /\ KeyValuePairs(returned) = {<<"ns.a.b", "x">>, <<"ns.a.c", "y">>}
  /\ Cardinality(Reorderings(call.obj)) = 4



\* The entries of a list that come from one file, in their order.
EntriesOf(entries, file) == SelectSeq(entries, LAMBDA e : e.file = file)

\* C13: loadLocaleEntries never throws and loses no file to another file's
\* error: an unreadable directory gives the empty list; a file that cannot be
\* read or has no parsable export, the index file and a file that is not a
\* .ts file contribute no entry; every other file of the listing, before or
\* after such a file, contributes exactly the entries of its flattened
\* object under its base name; and nothing else is returned.
C13_LoadLocaleEntriesNeverThrows ==
  call.fn = "loadLocaleEntries" =>
    LET files == call.dir.files
        Path(f) == call.localesDir \o "/" \o f.name
        Good(f) == /\ EndsWith(f.name, ".ts")
                   /\ f.name # "index.ts"
                   /\ f.readable
                   /\ f.exported
    IN /\ ~call.dir.readable => returned = <<>>
       /\ \A n \in DOMAIN files :
            IF Good(files[n])
            THEN EntriesOf(returned, Path(files[n]))
                   = flattenObject(files[n].obj,
                                   SubSeq(files[n].name, 1, Len(files[n].name) - 3),
                                   Path(files[n]))
            ELSE EntriesOf(returned, Path(files[n])) = <<>>
       /\ \A m \in DOMAIN returned :
            \E n \in DOMAIN files : returned[m].file = Path(files[n])

\* C13 witness: a listing of a good file, an unreadable file and another
\* good file was loaded, and the entries of both good files were returned.
C13_Witness ==
  /\ call.fn = "loadLocaleEntries"
  /\ call.dir.files = <<LocaleAB, LocaleLocked, LocaleA>>
  /\ [n \in DOMAIN returned |-> returned[n].key] = <<"a.b.c", "a.b.c", "a.d">>

(***************************************************************************)
(* Properties of the key extractor                                         *)
(***************************************************************************)
\* A text without its blanks and line breaks.
RECURSIVE Strip(_)
Strip(text) ==
  IF text = "" THEN ""
  ELSE IF SubSeq(text, 1, 1) \in {" ", "\t", "\n"}
  THEN Strip(SubSeq(text, 2, Len(text)))
  ELSE SubSeq(text, 1, 1) \o Strip(SubSeq(text, 2, Len(text)))

\* A code section whose text holds neither a call of useI18n nor a
\* destructuring of t out of a const, however they are spaced.
NoEvidence(section) ==
  LET text == Strip(JoinLines(section.lines))
  IN /\ ~Includes(text, "useI18n(")
     /\ ~Includes(text, "const{t,")
     /\ ~Includes(text, "const{t}")

\* A code section without evidence with all its lines emptied.
Gated(section) ==
  IF section.present /\ NoEvidence(section)
  THEN Present([n \in DOMAIN section.lines |-> ""])
  ELSE section

KeysOfPage(template, setup, classic) ==
  extractTranslationKeys(parseVueSFC(FilePaths[1], PageOf(template, setup, classic)))
IsScriptKey(k) == k.context = "script"
IsTemplateKey(k) == k.context = "template"

\* C17: a code section without evidence of the translation function yields
\* no call site, whatever calls of t it holds: the call sites of a page are
\* those of the same page with the lines of every such section emptied, and
\* there is no call site of context script when no code section has
\* evidence; the markup is scanned all the same: the call sites of context
\* template are those of the page without its code sections.
C17_CodeSectionGating ==
  call.fn = "extractTranslationKeys" =>
    /\ returned = KeysOfPage(call.template, Gated(call.setup), Gated(call.classic))
    /\ (NoEvidence(call.setup) /\ NoEvidence(call.classic))
         => SelectSeq(returned, IsScriptKey) = <<>>
    /\ SelectSeq(returned, IsTemplateKey) = KeysOfPage(call.template, Absent, Absent)

\* C17 witness: a page with a call of t in its markup, in its script setup
\* section and in its script section, both without evidence: only the call
\* site of the markup was returned.
C17_Witness ==
  /\ call.fn = "extractTranslationKeys"
  /\ call.template.present
  /\ call.setup = Present(<<"const m = t('z.q')", "const { title } = props">>)
  /\ call.classic = Present(<<"export default { x: t('a.b.c') }">>)
  /\ Len(returned) = 1
  /\ returned[1].key = "a.b.c"
  /\ returned[1].context = "template"

\* C18: a markup line of n double-brace calls of t or $t with single- or
\* double-quoted keys yields exactly n call sites, the i-th one static, of
\* context template, with the key of the i-th call, all with the same line
\* number; identical calls are not merged.
C18_OneCallSitePerInterpolation ==
  call.fn = "extractFromTemplate" =>
    /\ Len(returned) = Len(call.calls)
    /\ \A i \in DOMAIN returned :
         /\ ~returned[i].isDynamic
         /\ returned[i].key = call.calls[i].key
         /\ returned[i].context = "template"
         /\ returned[i].file = FilePaths[1]
         /\ returned[i].line = returned[1].line

\* C18 witness: a line that holds {{ t('common.save') }} twice gave two call
\* sites with the key common.save.
C18_Witness ==
  /\ call.fn = "extractFromTemplate"
  /\ call.line = "  <b>{{ t('common.save') }} {{ t('common.save') }}</b>"
  /\ Len(returned) = 2
  /\ returned[1] = returned[2]
  /\ returned[1].key = "common.save"

(***************************************************************************)
(* Properties of the hardcoded text detector                               *)
(***************************************************************************)
\* Whether the list a is a sub-list of the list b: b with some items removed.
RECURSIVE IsSubList(_, _)
IsSubList(a, b) ==
  IF a = <<>> THEN TRUE
  ELSE IF b = <<>> THEN FALSE
  ELSE IF Head(a) = Head(b) THEN IsSubList(Tail(a), Tail(b))
  ELSE IsSubList(a, Tail(b))

\* Patterns to add to the exclusion patterns, and values of minLength.
MorePatterns == {"^Go", "home", " ", "zzz"}
MinLengths == {0, 2, 3, 8}

\* C14: detectHardcodedStrings is monotonic in its rules: with one more
\* exclusion pattern appended, or put first, the candidates are a sub-list of
\* the candidates without it, so they are not more; with a lower minLength
\* the candidates without the change are a sub-list of the new ones, so the
\* new ones are not fewer.
C14_DetectionMonotonicInRules ==
  call.fn = "detectHardcodedStrings" =>
    /\ \A p \in MorePatterns :
         \A ps \in {Append(call.rules.excludePatterns, p),
                     <<p>> \o call.rules.excludePatterns} :
           LET fewer == detectHardcodedStrings(
                          call.parsed, [call.rules EXCEPT !.excludePatterns = ps])
           IN IsSubList(fewer, returned) /\ Len(fewer) <= Len(returned)
    /\ \A m \in MinLengths :
         m < call.rules.minLength =>
           LET more == detectHardcodedStrings(
                         call.parsed, [call.rules EXCEPT !.minLength = m])
           IN IsSubList(returned, more) /\ Len(more) >= Len(returned)

\* C14 witness: a markup of two candidates under minLength 3 and no pattern
\* of its own; the pattern ^Go removes one of them, and minLength 0 adds a
\* third.
C14_Witness ==
  /\ call.fn = "detectHardcodedStrings"
  /\ call.rules.minLength = 3
  /\ call.rules.excludePatterns = <<>>
  /\ [n \in DOMAIN returned |-> returned[n].text] = <<"Welcome to Dashboard", "Go home">>
  /\ Len(detectHardcodedStrings(
            call.parsed, [call.rules EXCEPT !.excludePatterns = <<"^Go">>])) = 1
  /\ Len(detectHardcodedStrings(call.parsed, [call.rules EXCEPT !.minLength = 0])) = 3

\* The conditions of the confidence levels, on a trimmed text.
StartsCapitalLower(t) ==
  Len(t) >= 2 /\ SubSeq(t, 1, 1) \in UpperSet /\ SubSeq(t, 2, 2) \in LowerSet
HasSpace(t) == \E i \in 1..Len(t) : SubSeq(t, i, i) = " "
EndsInPunctuation(t) ==
  Len(t) >= 1 /\ SubSeq(t, Len(t), Len(t)) \in {".", "!", "?", ":", ","}
SingleCapitalizedWord(t) ==
  /\ Len(t) >= 2
  /\ SubSeq(t, 1, 1) \in UpperSet
  /\ \A i \in 2..Len(t) : SubSeq(t, i, i) \in LowerSet
ExpectedConfidence(t) ==
  IF (StartsCapitalLower(t) /\ HasSpace(t)) \/ (EndsInPunctuation(t) /\ Len(t) > 5)
  THEN "high"
  ELSE IF SingleCapitalizedWord(t) \/ (HasSpace(t) /\ Len(t) > 10)
  THEN "medium"
  ELSE "low"

\* C15: the confidence of a text is high if it starts with a capital letter
\* followed by a lowercase letter and contains a space, or if it ends in one
\* of . ! ? : , and is longer than 5 characters; otherwise medium if it is a
\* single capitalized word or contains a space and is longer than 10
\* characters; otherwise low.  This holds of calculateConfidence and of the
\* confidence of every candidate detectHardcodedStrings returns.
C15_ConfidenceLevels ==
  /\ call.fn = "calculateConfidence"
       => returned = ExpectedConfidence(Trim(call.text))
  /\ call.fn = "detectHardcodedStrings"
       => \A n \in DOMAIN returned :
            returned[n].confidence = ExpectedConfidence(returned[n].text)

\* C15 witness: Welcome to Dashboard survived the filters with confidence
\* high, next to a candidate of confidence low.
C15_Witness ==
  /\ call.fn = "detectHardcodedStrings"
  /\ [n \in DOMAIN returned |-> <<returned[n].text, returned[n].confidence>>]
       = <<<<"Welcome to Dashboard", "high">>, <<"a!", "low">>, <<"Go home", "high">>>>

(***************************************************************************)
(* Properties of runAudit                                                  *)
(***************************************************************************)
\* What the loop of runAudit records for a file that is processed without
\* an error, computed for the file alone.
NormalFileResult(filePath) ==
  LET p == parseVueSFC(filePath, pages[filePath].lines)
      ks == extractTranslationKeys(p)
      hs == IF RegExpThrows(config.hardcodedTextRules.excludePatterns) THEN <<>>
            ELSE detectHardcodedStrings(p, config.hardcodedTextRules)
      found == Len(validateKeys(ks, localeLookup)) + Len(hs)
  IN [file |-> getRelativePath(filePath),
      status |-> IF found > 0 THEN "issues_found" ELSE "clean",
      keysFound |-> Len(ks),
      issueCount |-> found]

\* C12: a file whose processing throws is caught by runAudit: it gets exactly
\* one file result, with status issues_found, keysFound 0 and issueCount 1;
\* every file after it in scan order gets the result it gets when processed
\* normally; the loop records one result per file it has passed, and the
\* report runAudit returns holds one result per scanned file.
C12_FileErrorCaught ==
  /\ pc = "files" => Len(fileResults) = fileIndex - 1
  /\ pc = "done" => /\ Len(fileResults) = Len(vueFiles)
                    /\ report.fileResults = fileResults
                    /\ report.summary.filesScanned = Len(vueFiles)
  /\ \A n \in DOMAIN fileResults :
       /\ ~pages[vueFiles[n]].readable
            => fileResults[n] =
                 [file |-> getRelativePath(vueFiles[n]), status |-> "issues_found",
                  keysFound |-> 0, issueCount |-> 1]
       /\ (pages[vueFiles[n]].readable
            /\ \E m \in 1..(n - 1) : ~pages[vueFiles[m]].readable)
            => fileResults[n] = NormalFileResult(vueFiles[n])

\* C12 witness: runAudit returned a report of two files; the first could not
\* be read, the second was processed and its call sites were counted.
C12_Witness ==
  /\ pc = "done"
  /\ Len(vueFiles) = 2
  /\ ~pages[vueFiles[1]].readable
  /\ pages[vueFiles[2]].readable
  /\ report.fileResults[1].issueCount = 1
  /\ report.fileResults[2].keysFound > 0
  /\ report.fileResults[2].status = "issues_found"


\* The candidates detectHardcodedStrings returns for the first n scanned
\* files, those that cannot be read left out.
RECURSIVE CandidatesOfFiles(_)
CandidatesOfFiles(n) ==
  IF n = 0 THEN <<>>
  ELSE CandidatesOfFiles(n - 1)
       \o IF pages[vueFiles[n]].readable
          THEN detectHardcodedStrings(
                 parseVueSFC(vueFiles[n], pages[vueFiles[n]].lines),
                 config.hardcodedTextRules)
          ELSE <<>>

HardcodedIssuesOf(issues) == SelectSeq(issues, IsHardcoded)

\* C16: runAudit promotes the hardcoded candidates one to one: the issues a
\* file adds end with one issue per candidate of the file, in order, of type
\* hardcoded_text and severity warning, with the candidate's file, line and
\* text and a message that contains its confidence; the hardcoded_text
\* issues of the run are as many as the candidates of the files processed
\* without error, candidate by candidate; and summary.hardcodedStrings is
\* that number.
C16_HardcodedPromotedOneToOne ==
  pc \in {"files", "done"} =>
    LET k == Len(hardcodedStrings)
        base == Len(allIssues) - k
        candidates == CandidatesOfFiles(fileIndex - 1)
        promoted == HardcodedIssuesOf(allIssues)
    IN /\ base >= 0
       /\ \A n \in 1..k :
            /\ allIssues[base + n].type = "hardcoded_text"
            /\ allIssues[base + n].severity = "warning"
            /\ allIssues[base + n].file = hardcodedStrings[n].file
            /\ allIssues[base + n].line = hardcodedStrings[n].line
            /\ allIssues[base + n].text = hardcodedStrings[n].text
            /\ Includes(allIssues[base + n].message,
                        "confidence: " \o hardcodedStrings[n].confidence)
       /\ HardcodedIssuesOf(keyIssues) = <<>>
       /\ Len(promoted) = Len(candidates)
       /\ \A n \in DOMAIN promoted :
            /\ promoted[n].severity = "warning"
            /\ promoted[n].file = candidates[n].file
            /\ promoted[n].line = candidates[n].line
            /\ promoted[n].text = candidates[n].text
            /\ Includes(promoted[n].message, candidates[n].confidence)
       /\ pc = "done" => /\ report.summary.hardcodedStrings = Len(candidates)
                         /\ report.issues = allIssues

\* C16 witness: a run over two files with one candidate each returned a
\* report with two hardcoded_text issues and hardcodedStrings = 2.
C16_Witness ==
  /\ pc = "done"
  /\ Len(vueFiles) = 2
  /\ report.summary.hardcodedStrings = 2
  /\ Len(hardcodedStrings) = 1
  /\ [n \in 1..2 |-> HardcodedIssuesOf(report.issues)[n].text]
       = <<"Go home", "Welcome to Dashboard">>



(***************************************************************************)
(* Properties of the commands                                              *)
(***************************************************************************)
\* The position of the last token of the command line that is one of the
\* flags, 0 when none is.
LastFlag(flags) ==
  LET at == {n \in DOMAIN argv : argv[n] \in flags}
  IN IF at = {} THEN 0 ELSE CHOOSE n \in at : \A m \in at : m <= n

\* A field the configuration file sets
FileSets(field) ==
  configFile.exists /\ configFile.valid /\ field \in DOMAIN configFile.fileConfig

\* The value of a field under the precedence flag, file, default; given is
\* whether a flag names the field and value is what the flag says.
Precedence(field, given, value) ==
  IF given THEN value
  ELSE IF FileSets(field) THEN configFile.fileConfig[field]
  ELSE DEFAULT_CONFIG[field]

\* C19: once the command has built its configuration, each of pagesDir,
\* localesDir, includePartials and verbose is the value of its flag when
\* the flag is on the command line, otherwise the value the configuration
\* file sets, otherwise the built-in default.
C19_ConfigPrecedence ==
  pc # "cli" =>
    LET p == LastFlag({"-p", "--pages-dir"})
        l == LastFlag({"-l", "--locales-dir"})
        i == LastFlag({"--include-partials", "--no-include-partials"})
        v == LastFlag({"-v", "--verbose"})
    IN /\ config.pagesDir = Precedence("pagesDir", p > 0, argv[p + 1])
       /\ config.localesDir = Precedence("localesDir", l > 0, argv[l + 1])
       /\ config.includePartials
            = Precedence("includePartials", i > 0, argv[i] = "--include-partials")
       /\ config.verbose = Precedence("verbose", v > 0, TRUE)

\* The number a threshold token of the command lines stands for
ThresholdOf(token) ==
  CASE token = "0" -> 0
    [] token = "2" -> 2
    [] token = "10" -> 10

\* C20: when the check command has exited, with C the missing translations
\* of the summary if --no-fail-on-missing is not given plus its hardcoded
\* strings if --fail-on-hardcoded is given, and T the threshold given (0
\* when none is), the exit code is 1 when C > T and 0 otherwise; with no
\* flag of the three it is 1 exactly when the summary counts a missing
\* translation.  Empty values and dynamic keys are no part of C.
C20_CheckExitCode ==
  (pc = "exit" /\ CommandOf(argv) = "check") =>
    LET t == LastFlag({"-t", "--threshold"})
        T == IF t > 0 THEN ThresholdOf(argv[t + 1]) ELSE 0
        onMissing == LastFlag({"--no-fail-on-missing"}) = 0
        onHardcoded == LastFlag({"--fail-on-hardcoded"}) > 0
        C == (IF onMissing THEN report.summary.missingTranslations ELSE 0)
             + (IF onHardcoded THEN report.summary.hardcodedStrings ELSE 0)
    IN /\ exitCode = (IF C > T THEN 1 ELSE 0)
       /\ (t = 0 /\ onMissing /\ ~onHardcoded)
            => (exitCode = 1 <=> report.summary.missingTranslations >= 1)

\* The check command exits 0 on a report with missing translations below
\* the threshold given, empty values, dynamic keys and uncounted hardcoded
\* strings.
C20_Witness ==
  /\ pc = "exit"
  /\ CommandOf(argv) = "check"
  /\ LastFlag({"-t", "--threshold"}) > 0
  /\ LastFlag({"--fail-on-hardcoded"}) = 0
  /\ exitCode = 0
  /\ report.summary.missingTranslations > 0
  /\ report.summary.hardcodedStrings > 0
  /\ report.summary.emptyValues > 0
  /\ report.summary.dynamicKeys > 0

(***************************************************************************)
(* Properties of the report                                                *)
(***************************************************************************)
\* C21: in the report runAudit returns, fileResults has one entry for each
\* scanned file, in scan order, summary.filesScanned is the number of
\* entries, an entry is clean exactly when its issueCount is 0, and the
\* entry of a file that could not be read is issues_found.
C21_OneResultPerScannedFile ==
  pc = "done" =>
    /\ Len(report.fileResults) = Len(vueFiles)
    /\ report.summary.filesScanned = Len(report.fileResults)
    /\ \A n \in DOMAIN report.fileResults :
         LET r == report.fileResults[n]
         IN /\ r.file = getRelativePath(vueFiles[n])
            /\ r.status \in {"clean", "issues_found"}
            /\ r.status = "clean" <=> r.issueCount = 0
            /\ ~pages[vueFiles[n]].readable => r.status = "issues_found"

\* A report of two files: one clean with keys and one that could not be
\* read.
C21_Witness ==
  /\ pc = "done"
  /\ Len(report.fileResults) = 2
  /\ \E n \in 1..2 : /\ report.fileResults[n].status = "clean"
                      /\ report.fileResults[n].keysFound > 0
  /\ \E n \in 1..2 : ~pages[vueFiles[n]].readable

(***************************************************************************)
(* Properties of the fallback catalog scanner                              *)
(***************************************************************************)
\* What a line of the texts is: an open with its key, a close, a pair with
\* its key and value, or a comment.
OpenKey(line) ==
  CASE line = "a: {" -> "a"
    [] line = "  b : {" -> "b"
    [] OTHER -> ""
IsClose(line) == line \in {"}", "},"}
PairOf(line) ==
  CASE line = "k: \"v\"," -> <<"k", "v">>
    [] line = "a : 'w'" -> <<"a", "w">>
    [] OTHER -> <<>>
Front(seq) == SubSeq(seq, 1, Len(seq) - 1)

\* The keys of the opens of a text that no close has closed, outermost
\* first; a close with nothing open closes nothing.
RECURSIVE OpenPath(_)
OpenPath(text) ==
  IF text = <<>> THEN <<>>
  ELSE LET before == OpenPath(Front(text))
           line == text[Len(text)]
       IN IF OpenKey(line) # "" THEN Append(before, OpenKey(line))
          ELSE IF IsClose(line) /\ before # <<>> THEN Front(before)
          ELSE before

\* The tree with the nesting of a text: every open puts an empty object,
\* every pair its value, into the object of the innermost open not yet
\* closed.
RECURSIVE TreeOf(_)
TreeOf(text) ==
  IF text = <<>> THEN Obj(<<>>)
  ELSE LET tree == TreeOf(Front(text))
           path == OpenPath(Front(text))
           line == text[Len(text)]
       IN IF OpenKey(line) # "" THEN SetAt(tree, path, OpenKey(line), Obj(<<>>))
          ELSE IF PairOf(line) # <<>>
          THEN SetAt(tree, path, PairOf(line)[1], Str(PairOf(line)[2]))
          ELSE tree

\* C22: while parseLocaleFileRegex runs, the object stack holds at least
\* the root; the current object is the object of the innermost open not
\* yet closed, the root when every open has been closed; the pair of the
\* line just processed is stored in that object; and the tree has the
\* nesting of the lines processed so far.
C22_ScannerFollowsNesting ==
  scanIndex >= 1 =>
    LET done == SubSeq(scanContent, 1, scanIndex - 1)
    IN /\ Len(objStack) >= 1
       /\ objStack[1] = <<>>
       /\ currentObj = OpenPath(done)
       /\ (OpenPath(done) = <<>>) => (currentObj = <<>>)
       /\ (done # <<>> /\ PairOf(done[Len(done)]) # <<>>) =>
            LET pair == PairOf(done[Len(done)])
                into == ObjAt(result, OpenPath(Front(done)))
            IN HasKey(into.entries, pair[1])
               /\ GetKey(into.entries, pair[1]) = Str(pair[2])
       /\ result = TreeOf(done)

\* A text is scanned to its end in which a close came with nothing open, a
\* pair was stored in a nested object, and every open was closed.
C22_Witness ==
  /\ scanIndex > Len(scanContent)
  /\ Len(objStack) = 1
  /\ currentObj = <<>>
  /\ \E n \in DOMAIN scanContent :
       IsClose(scanContent[n]) /\ OpenPath(SubSeq(scanContent, 1, n - 1)) = <<>>
  /\ \E n \in DOMAIN scanContent :
       /\ PairOf(scanContent[n]) # <<>>
       /\ OpenPath(SubSeq(scanContent, 1, n - 1)) # <<>>
  /\ \E k \in {"a", "b"} :
       /\ HasKey(result.entries, k)
       /\ GetKey(result.entries, k).t = "object"
       /\ GetKey(result.entries, k).entries # <<>>

(***************************************************************************)
(* Properties of extractFromScript                                         *)
(***************************************************************************)
\* The lines of the sections that are import or type lines, and the number
\* of calls of t on each of the other lines.
IsImportOrType(line) ==
  line \in {"import { t } from 'x'; t('a.b')", "  type T = t(~c.${d}~)"}
CallsOn(line) ==
  CASE line = "const a = t('e.f'), b = t(\"g.h\")" -> 2
    [] line = "typeof t('h.i')" -> 1
    [] line = "important(t('j.k'))" -> 1
    [] OTHER -> 0
SitesAtLine(sites, lineNumber) ==
  SelectSeq(sites, LAMBDA k : k.line = lineNumber)

\* C23: extractFromScript returns no call site, static or dynamic, with the
\* line number of a line that begins with import or type, and in a section
\* with the evidence line every other line yields one call site per call
\* of t on it.
C23_ImportAndTypeLinesSkipped ==
  call.fn = "extractFromScript" =>
    \A n \in DOMAIN call.script :
      LET sites == SitesAtLine(returned, calculateSourceLine(n, call.startLine))
      IN IF IsImportOrType(call.script[n]) THEN sites = <<>>
         ELSE (\E m \in DOMAIN call.script : call.script[m] = "const { t } = useI18n()")
                => Len(sites) = CallsOn(call.script[n])

\* A section with the evidence line, an import line with a call of t and a
\* line with two calls: the two call sites of the last line were returned.
C23_Witness ==
  /\ call.fn = "extractFromScript"
  /\ call.script = <<"const { t } = useI18n()", "import { t } from 'x'; t('a.b')",
                     "const a = t('e.f'), b = t(\"g.h\")">>
  /\ Len(returned) = 2
  /\ \A n \in 1..2 : returned[n].line = calculateSourceLine(3, call.startLine)

\* The number of issues of a type in the report
IssuesOfType(type) ==
  Cardinality({n \in DOMAIN report.issues : report.issues[n].type = type})

\* C24: in the report runAudit returns, the four counts of the summary are
\* the numbers of issues of the four types, they add up to the length of
\* the issue list, and uniqueKeysFound is at most totalKeysFound.
C24_CountsMatchIssueList ==
  pc = "done" =>
    /\ report.summary.missingTranslations = IssuesOfType("missing_translation")
    /\ report.summary.emptyValues = IssuesOfType("empty_value")
    /\ report.summary.dynamicKeys = IssuesOfType("dynamic_key")
    /\ report.summary.hardcodedStrings = IssuesOfType("hardcoded_text")
    /\ report.summary.missingTranslations + report.summary.emptyValues
         + report.summary.dynamicKeys + report.summary.hardcodedStrings
         = Len(report.issues)
    /\ report.summary.uniqueKeysFound <= report.summary.totalKeysFound

\* A report with issues of all four types and a key used more than once.
C24_Witness ==
  /\ pc = "done"
  /\ report.summary.missingTranslations > 0
  /\ report.summary.emptyValues > 0
  /\ report.summary.dynamicKeys > 0
  /\ report.summary.hardcodedStrings > 0
  /\ report.summary.uniqueKeysFound < report.summary.totalKeysFound

\* C25: in the report runAudit returns, summary.coveragePercentage lies
\* between 0 and 100 (here in tenths of a percent, between 0 and 1000).
C25_CoverageInRange ==
  pc = "done" =>
    /\ report.summary.coveragePercentage >= 0
    /\ report.summary.coveragePercentage <= 1000

\* The sum of a field over the file results of the report
RECURSIVE SumOf(_, _)
SumOf(results, field) ==
  IF results = <<>> THEN 0
  ELSE results[1][field] + SumOf(Tail(results), field)

\* C26: in the report runAudit returns, the issueCount of the file results
\* add up to the length of the issue list and their keysFound to
\* summary.totalKeysFound.
C26_FileCountsAddUp ==
  pc = "done" =>
    /\ SumOf(report.fileResults, "issueCount") = Len(report.issues)
    /\ SumOf(report.fileResults, "keysFound") = report.summary.totalKeysFound

(***************************************************************************)
(* Properties of the candidates of the hardcoded text detector             *)
(***************************************************************************)
\* C27: whatever the rules, detectHardcodedStrings returns no candidate
\* whose text is a capital letter followed only by lowercase letters, and
\* every candidate of confidence medium has a space and more than 10
\* characters.
C27_NoSingleWordCandidate ==
  call.fn = "detectHardcodedStrings" =>
    \A n \in DOMAIN returned :
      /\ ~SingleCapitalizedWord(returned[n].text)
      /\ returned[n].confidence = "medium" =>
           (HasSpace(returned[n].text) /\ Len(returned[n].text) > 10)

\* The markup holds the text Save, which the rules let through, and a text
\* scored medium: the second was returned and the first was not.
C27_Witness ==
  /\ call.fn = "detectHardcodedStrings"
  /\ call.rules.minLength <= 4
  /\ \E n \in DOMAIN call.parsed.template :
       Includes(call.parsed.template[n], "> Save <")
  /\ \E n \in DOMAIN returned : returned[n].confidence = "medium"
  /\ \A n \in DOMAIN returned : returned[n].text # "Save"
====
